---- MODULE Spec2Model ----
(***************************************************************************)
(* Model of scripts/process-sponsors.ts (the variant with the $100         *)
(* individual-transaction threshold and the 45/400-day activity windows),  *)
(* of the helpers of lib/utils.ts it calls and of                          *)
(* scripts/upload-sponsorkit-to-r2.ts.                                     *)
(*                                                                         *)
(* Conventions                                                             *)
(*   - A JavaScript string is a sequence of one-character strings.         *)
(*   - A JavaScript number that holds money is a record [nan, v]: v is the *)
(*     value in cents, nan marks NaN.  Inputs carry at most two decimals.  *)
(*   - A date string is represented by its timestamp (getTime()), counted  *)
(*     in ticks of twelve hours; MS_PER_DAY is one day in ticks.           *)
(*   - The Date.now() reads of one loop iteration happen in one            *)
(*     synchronous block and are one value; the clock may advance at the   *)
(*     await that ends the iteration.                                      *)
(***************************************************************************)
EXTENDS Integers, Sequences, FiniteSets, TLC

VARIABLES GITHUB_TOKEN, rawSponsors, idx, validSponsors, locals,
          tokenWarnings, now, pc, result,
          autoYes, exportFile, files, output, events, exitCode,
          args, disk, oldSponsors, newSponsors,
          pages, queryName, allSponsors, hasNextPage, cursor,
          activeSponsors, pastSponsors

\* The state of a call of processSponsorData.
callVars == <<GITHUB_TOKEN, rawSponsors, idx, validSponsors, locals,
              tokenWarnings, now, result>>

\* The state of a run of a script: its arguments, the files of the working
\* directory, the document written to generated/sponsors.json, what the run
\* did so far and its exit code.
runVars == <<autoYes, exportFile, files, output, events, exitCode>>

\* The state of a run of sponsorkit-enhanced.ts: its command line, the
\* content of the two files it reads and writes, and the two lists of main.
trackVars == <<args, disk, oldSponsors, newSponsors>>

\* The state of a run of the fetch-sponsors script: the pages the GraphQL
\* endpoint serves, the locals of fetchAllSponsors and the lists of main.
fetchVars == <<pages, queryName, allSponsors, hasNextPage, cursor,
               activeSponsors, pastSponsors>>

vars == <<GITHUB_TOKEN, rawSponsors, idx, validSponsors, locals,
          tokenWarnings, now, pc, result,
          autoYes, exportFile, files, output, events, exitCode,
          args, disk, oldSponsors, newSponsors,
          pages, queryName, allSponsors, hasNextPage, cursor,
          activeSponsors, pastSponsors>>

----------------------------------------------------------------------------
(* Bounds *)

MaxSponsors == 2
MaxTx == 2
MaxTicks == 1
Now0 == 1000

(* Program constants *)

SPECIAL_THRESHOLD == 100
NORMAL_MIN_THRESHOLD == 5
RECURRING_ACTIVE_DAYS == 45
YEARLY_ACTIVE_DAYS == 400
ONE_TIME_CURRENT_DAYS == 30
MS_PER_DAY == 2

----------------------------------------------------------------------------
(* JavaScript numbers *)

NaN == [nan |-> TRUE, v |-> 0]

Num(c) == [nan |-> FALSE, v |-> c]

Dollars(d) == Num(d * 100)

NumGe(a, b) == ~a.nan /\ ~b.nan /\ a.v >= b.v

NumGt(a, b) == ~a.nan /\ ~b.nan /\ a.v > b.v

NumAdd(a, b) == IF a.nan \/ b.nan THEN NaN ELSE Num(a.v + b.v)

NumSub(a, b) == IF a.nan \/ b.nan THEN NaN ELSE Num(a.v - b.v)

RECURSIVE MathMax(_)
MathMax(s) ==
    IF Len(s) = 1 THEN s[1]
    ELSE LET m == MathMax(Tail(s))
         IN IF s[1].nan \/ m.nan THEN NaN
            ELSE IF s[1].v >= m.v THEN s[1] ELSE m

----------------------------------------------------------------------------
(* Strings *)

Digit == {"0", "1", "2", "3", "4", "5", "6", "7", "8", "9"}

DigitVal(c) ==
    CASE c = "0" -> 0 [] c = "1" -> 1 [] c = "2" -> 2 [] c = "3" -> 3
      [] c = "4" -> 4 [] c = "5" -> 5 [] c = "6" -> 6 [] c = "7" -> 7
      [] c = "8" -> 8 [] c = "9" -> 9

StartsWithAt(s, i, p) ==
    /\ i + Len(p) - 1 <= Len(s)
    /\ \A k \in 1..Len(p) : s[i + k - 1] = p[k]

Includes(s, p) == \E i \in 1..(Len(s) + 1) : StartsWithAt(s, i, p)

\* String.prototype.replace(pattern, "") with a string pattern of one
\* character: the first occurrence only is removed.
ReplaceFirst(s, c) ==
    IF \E i \in 1..Len(s) : s[i] = c
    THEN LET i == CHOOSE j \in 1..Len(s) :
                      s[j] = c /\ \A k \in 1..(j - 1) : s[k] # c
         IN SubSeq(s, 1, i - 1) \o SubSeq(s, i + 1, Len(s))
    ELSE s

RECURSIVE DigitRun(_, _)
DigitRun(s, i) ==
    IF i <= Len(s) /\ s[i] \in Digit THEN 1 + DigitRun(s, i + 1) ELSE 0

RECURSIVE DigitsValue(_, _, _)
DigitsValue(s, i, n) ==
    IF n = 0 THEN 0
    ELSE DigitsValue(s, i, n - 1) * 10 + DigitVal(s[i + n - 1])

RECURSIVE SkipSpaces(_, _)
SkipSpaces(s, i) ==
    IF i <= Len(s) /\ s[i] = " " THEN SkipSpaces(s, i + 1) ELSE i

\* parseFloat: leading white space, an optional sign, then the longest
\* prefix that is a decimal literal; NaN when there is none.  Exponents and
\* the literal Infinity do not occur in the inputs and are not modelled.
\* The value of the literal that starts at i1 with n digits before and m
\* digits behind the decimal point, in cents.
ParseValue(s, i1, neg, n, m) ==
    IF n = 0 /\ m = 0 THEN NaN
    ELSE LET cents ==
                 DigitsValue(s, i1, n) * 100
                 + (IF m >= 1 THEN DigitVal(s[i1 + n + 1]) ELSE 0) * 10
                 + (IF m >= 2 THEN DigitVal(s[i1 + n + 2]) ELSE 0)
         IN Num(IF neg THEN 0 - cents ELSE cents)

ParseFraction(s, i1, neg, n) ==
    IF i1 + n <= Len(s) /\ s[i1 + n] = "."
    THEN ParseValue(s, i1, neg, n, DigitRun(s, i1 + n + 1))
    ELSE ParseValue(s, i1, neg, n, 0)

ParseSigned(s, i0) ==
    IF i0 <= Len(s) /\ s[i0] \in {"-", "+"}
    THEN ParseFraction(s, i0 + 1, s[i0] = "-", DigitRun(s, i0 + 1))
    ELSE ParseFraction(s, i0, FALSE, DigitRun(s, i0))

ParseFloat(s) == ParseSigned(s, SkipSpaces(s, 1))

parseAmount(amountStr) == ParseFloat(ReplaceFirst(amountStr, "$"))

isRecurringTier_AnyMonth(tierName) ==
    Includes(tierName, <<"m", "o", "n", "t", "h">>)

isRecurringTier(tierName) ==
    \/ Includes(tierName, <<"a", " ", "m", "o", "n", "t", "h">>)
    \/ Includes(tierName, <<"m", "o", "n", "t", "h", "l", "y">>)
    \/ Includes(tierName, <<"/", "m", "o", "n", "t", "h">>)

----------------------------------------------------------------------------
(* Array helpers *)

\* Days between a timestamp and the clock reading n:
\* Math.floor((Date.now() - new Date(d).getTime()) / (1000 * 60 * 60 * 24)).
DaysSince(d, n) == (n - d) \div MS_PER_DAY

\* Array.prototype.sort is stable.  Insertion of x behind every element it
\* does not strictly precede, for the comparator
\* new Date(b.transaction_date) - new Date(a.transaction_date).
RECURSIVE InsertByDate(_, _)
InsertByDate(x, s) ==
    IF s = <<>> THEN <<x>>
    ELSE IF x.transaction_date > s[1].transaction_date
         THEN <<x>> \o s
         ELSE <<s[1]>> \o InsertByDate(x, Tail(s))

RECURSIVE SortByDateDesc(_)
SortByDateDesc(s) ==
    IF s = <<>> THEN <<>>
    ELSE InsertByDate(s[Len(s)], SortByDateDesc(SubSeq(s, 1, Len(s) - 1)))

\* The comparator parseAmount(b.tier_monthly_amount) -
\* parseAmount(a.tier_monthly_amount); a NaN result counts as 0.
AmountCmp(a, b) ==
    LET d == NumSub(parseAmount(b.tier_monthly_amount),
                    parseAmount(a.tier_monthly_amount))
    IN IF d.nan THEN 0 ELSE d.v

RECURSIVE InsertByAmount(_, _)
InsertByAmount(x, s) ==
    IF s = <<>> THEN <<x>>
    ELSE IF AmountCmp(x, s[1]) < 0
         THEN <<x>> \o s
         ELSE <<s[1]>> \o InsertByAmount(x, Tail(s))

RECURSIVE SortByAmountDesc(_)
SortByAmountDesc(s) ==
    IF s = <<>> THEN <<>>
    ELSE InsertByAmount(s[Len(s)], SortByAmountDesc(SubSeq(s, 1, Len(s) - 1)))

\* A comparator with a NaN amount in play is not a consistent comparator
\* and the order sort() produces is then implementation-defined.
AmountCmpConsistent(s) ==
    \A i \in 1..Len(s) : ~parseAmount(s[i].tier_monthly_amount).nan

RECURSIVE SumProcessed_TierAmount(_)
SumProcessed_TierAmount(s) ==
    IF s = <<>> THEN Num(0)
    ELSE NumAdd(SumProcessed_TierAmount(SubSeq(s, 1, Len(s) - 1)),
                parseAmount(s[Len(s)].tier_monthly_amount))

RECURSIVE SumProcessed(_)
SumProcessed(s) ==
    IF s = <<>> THEN Num(0)
    ELSE NumAdd(SumProcessed(SubSeq(s, 1, Len(s) - 1)),
                parseAmount(s[Len(s)].processed_amount))

TierAmounts(s) == [i \in 1..Len(s) |-> parseAmount(s[i].tier_monthly_amount)]

IsValidStatus_AnyStatus(t) == t.status # ""

IsValidStatus(t) ==
    t.status = "settled" \/ t.status = "credit_balance_adjusted"

IsRecurringTx(t) == isRecurringTier(t.tier_name)

IsOneTimeTx(t) == ~isRecurringTier(t.tier_name)

IsSpecialAmountTx(t) ==
    NumGe(parseAmount(t.tier_monthly_amount), Dollars(SPECIAL_THRESHOLD))

\* The element [0] of an array, undefined (here <<>>) when it is empty;
\* a defined element is wrapped as a one-element sequence.
First(s) == IF s = <<>> THEN <<>> ELSE <<s[1]>>

----------------------------------------------------------------------------
(* processSponsorData: the body of the loop over rawSponsors *)

\* A day count: a finite number of days, or Infinity.
Infinity == [inf |-> TRUE, d |-> 0]

Days(k) == [inf |-> FALSE, d |-> k]

DaysLe(x, k) == ~x.inf /\ x.d <= k

Unknown == <<"U", "n", "k", "n", "o", "w", "n">>

LatestByDate_Oldest(xs) ==
    IF xs = <<>> THEN <<>> ELSE <<SortByDateDesc(xs)[Len(xs)]>>

\* xs.sort((a, b) => date(b) - date(a))[0]
LatestByDate(xs) == First(SortByDateDesc(xs))

ComputeIsCurrentlyActive_Strict(hasRecurringTiers, isYearlySponsor, daysSinceLastRecurring) ==
    IF ~hasRecurringTiers THEN FALSE
    ELSE IF isYearlySponsor
    THEN DaysLe(daysSinceLastRecurring, YEARLY_ACTIVE_DAYS - 1)
    ELSE DaysLe(daysSinceLastRecurring, RECURRING_ACTIVE_DAYS - 1)

\* let isCurrentlyActive
ComputeIsCurrentlyActive(hasRecurringTiers, isYearlySponsor, daysSinceLastRecurring) ==
    IF ~hasRecurringTiers THEN FALSE
    ELSE LET activeThreshold ==
                 IF isYearlySponsor THEN YEARLY_ACTIVE_DAYS
                 ELSE RECURRING_ACTIVE_DAYS
         IN DaysLe(daysSinceLastRecurring, activeThreshold)

SpecialDays_OneMonth(donationAmount) == 30

\* specialDays: Math.max(1, Math.floor(donationAmount / 100)) * 30
SpecialDays(donationAmount) ==
    IF 1 >= donationAmount.v \div (100 * 100) THEN 30
    ELSE (donationAmount.v \div (100 * 100)) * 30

ComputeIsWithinSpecialWindow_Forever(latestSpecialOneTime, n) ==
    latestSpecialOneTime # <<>>

\* let isWithinSpecialWindow
ComputeIsWithinSpecialWindow(latestSpecialOneTime, n) ==
    IF latestSpecialOneTime # <<>>
    THEN DaysSince(latestSpecialOneTime[1].transaction_date, n)
         <= SpecialDays(parseAmount(latestSpecialOneTime[1].tier_monthly_amount))
    ELSE FALSE

\* The category of a sponsor without recurring transactions.
OneTimeCategory(latestOneTimeTransaction, daysSinceLastOneTime, latestAmount) ==
    IF NumGe(latestAmount, Dollars(NORMAL_MIN_THRESHOLD))
    THEN IF DaysLe(daysSinceLastOneTime, ONE_TIME_CURRENT_DAYS)
         THEN "current"
         ELSE "past"
    ELSE IF NumGt(latestAmount, Num(0))
    THEN "backers"
    ELSE "past"

RecurringCategory_LapsedToBackers(isCurrentlyActive, currentMonthlyAmount) ==
    IF isCurrentlyActive
       /\ NumGe(currentMonthlyAmount, Dollars(NORMAL_MIN_THRESHOLD))
    THEN "current"
    ELSE IF NumGt(currentMonthlyAmount, Num(0))
    THEN "backers"
    ELSE "past"

\* The category of a sponsor with recurring transactions.
RecurringCategory(isCurrentlyActive, currentMonthlyAmount) ==
    IF isCurrentlyActive
       /\ NumGe(currentMonthlyAmount, Dollars(NORMAL_MIN_THRESHOLD))
    THEN "current"
    ELSE IF NumGe(currentMonthlyAmount, Dollars(NORMAL_MIN_THRESHOLD))
    THEN "past"
    ELSE IF NumGt(currentMonthlyAmount, Num(0))
    THEN "backers"
    ELSE "past"

ComputeCategory_NormalFirst(isCurrentlyActive, currentMonthlyAmount, isWithinSpecialWindow, hasRecurringTiers, latestOneTimeTransaction, daysSinceLastOneTime) ==
    IF hasRecurringTiers
    THEN IF isWithinSpecialWindow
            /\ ~NumGe(currentMonthlyAmount, Dollars(NORMAL_MIN_THRESHOLD))
         THEN "special"
         ELSE IF isCurrentlyActive
                 /\ NumGe(currentMonthlyAmount, Dollars(SPECIAL_THRESHOLD))
                 /\ ~isWithinSpecialWindow
         THEN "special"
         ELSE RecurringCategory(isCurrentlyActive, currentMonthlyAmount)
    ELSE IF isWithinSpecialWindow THEN "special"
    ELSE OneTimeCategory(
             latestOneTimeTransaction, daysSinceLastOneTime,
             IF latestOneTimeTransaction # <<>>
             THEN parseAmount(latestOneTimeTransaction[1].tier_monthly_amount)
             ELSE Num(0))

ComputeCategory_AnyRecentPayment(isCurrentlyActive, currentMonthlyAmount, isWithinSpecialWindow, hasRecurringTiers, latestOneTimeTransaction, daysSinceLastOneTime) ==
    IF (isCurrentlyActive
        /\ NumGe(currentMonthlyAmount, Dollars(SPECIAL_THRESHOLD)))
       \/ isWithinSpecialWindow
    THEN "special"
    ELSE IF hasRecurringTiers
    THEN RecurringCategory(
             isCurrentlyActive
             \/ DaysLe(daysSinceLastOneTime, ONE_TIME_CURRENT_DAYS),
             currentMonthlyAmount)
    ELSE OneTimeCategory(
             latestOneTimeTransaction, daysSinceLastOneTime,
             IF latestOneTimeTransaction # <<>>
             THEN parseAmount(latestOneTimeTransaction[1].tier_monthly_amount)
             ELSE Num(0))

\* let category
ComputeCategory(isCurrentlyActive, currentMonthlyAmount, isWithinSpecialWindow, hasRecurringTiers, latestOneTimeTransaction, daysSinceLastOneTime) ==
    IF (isCurrentlyActive
        /\ NumGe(currentMonthlyAmount, Dollars(SPECIAL_THRESHOLD)))
       \/ isWithinSpecialWindow
    THEN "special"
    ELSE IF hasRecurringTiers
    THEN RecurringCategory(isCurrentlyActive, currentMonthlyAmount)
    ELSE OneTimeCategory(
             latestOneTimeTransaction, daysSinceLastOneTime,
             IF latestOneTimeTransaction # <<>>
             THEN parseAmount(latestOneTimeTransaction[1].tier_monthly_amount)
             ELSE Num(0))

ComputePrimaryTier_RecurringFirst(category, isWithinSpecialWindow, latestSpecialOneTime, isCurrentlyActive, latestRecurringTransaction, latestOneTimeTransaction, fallbackTier) ==
    IF isCurrentlyActive /\ latestRecurringTransaction # <<>>
    THEN latestRecurringTransaction[1]
    ELSE IF category = "special" /\ isWithinSpecialWindow
            /\ latestSpecialOneTime # <<>>
    THEN latestSpecialOneTime[1]
    ELSE IF latestOneTimeTransaction # <<>>
    THEN latestOneTimeTransaction[1]
    ELSE fallbackTier

\* let primaryTier
ComputePrimaryTier(category, isWithinSpecialWindow, latestSpecialOneTime, isCurrentlyActive, latestRecurringTransaction, latestOneTimeTransaction, fallbackTier) ==
    IF category = "special" /\ isWithinSpecialWindow
       /\ latestSpecialOneTime # <<>>
    THEN latestSpecialOneTime[1]
    ELSE IF isCurrentlyActive /\ latestRecurringTransaction # <<>>
    THEN latestRecurringTransaction[1]
    ELSE IF latestOneTimeTransaction # <<>>
    THEN latestOneTimeTransaction[1]
    ELSE fallbackTier

\* Days since the transaction x, Infinity when there is none.
DaysSinceOrInfinity(x, n) ==
    IF x # <<>> THEN Days(DaysSince(x[1].transaction_date, n)) ELSE Infinity

\* The tier amount of the transaction x, 0 when there is none.
AmountOrZero(x) ==
    IF x # <<>> THEN parseAmount(x[1].tier_monthly_amount) ELSE Num(0)

\* The arrays of one iteration: validTransactions as filtered and as sorted
\* in place later on, and the recurring and one-time transactions.
TransactionArrays(sponsor) ==
    [ valid |-> SelectSeq(sponsor.transactions, IsValidStatus),
      sorted |-> SortByDateDesc(SelectSeq(sponsor.transactions, IsValidStatus)),
      recurring |->
          SelectSeq(SelectSeq(sponsor.transactions, IsValidStatus),
                    IsRecurringTx),
      oneTime |->
          SelectSeq(SelectSeq(sponsor.transactions, IsValidStatus),
                    IsOneTimeTx) ]

\* The latest transactions of one iteration.
LatestTransactions(arr) ==
    [ recurring |-> LatestByDate(arr.recurring),
      special |-> LatestByDate(SelectSeq(arr.oneTime, IsSpecialAmountTx)),
      oneTime |-> LatestByDate(arr.oneTime),
      any |-> First(arr.sorted) ]

CurrentMonthlyAmount_Highest(arr, latest) ==
    IF Len(arr.recurring) > 0 THEN MathMax(TierAmounts(arr.recurring))
    ELSE Num(0)

\* latestRecurringTransaction
\*     ? parseAmount(latestRecurringTransaction.tier_monthly_amount) : 0
CurrentMonthlyAmount(arr, latest) == AmountOrZero(latest.recurring)

\* isCurrentlyActive, isWithinSpecialWindow and currentMonthlyAmount.
Status(sponsor, n, arr, latest) ==
    [ isCurrentlyActive |->
          ComputeIsCurrentlyActive(Len(arr.recurring) > 0, sponsor.is_yearly,
                                   DaysSinceOrInfinity(latest.recurring, n)),
      isWithinSpecialWindow |->
          ComputeIsWithinSpecialWindow(latest.special, n),
      currentMonthlyAmount |-> CurrentMonthlyAmount(arr, latest) ]

CategoryOf(n, arr, latest, st) ==
    ComputeCategory(st.isCurrentlyActive, st.currentMonthlyAmount,
                    st.isWithinSpecialWindow, Len(arr.recurring) > 0,
                    latest.oneTime, DaysSinceOrInfinity(latest.oneTime, n))

TierNameOf(primaryTier) ==
    IF primaryTier.tier_name # <<>> THEN primaryTier.tier_name ELSE Unknown

IterationLocals(sponsor, n, fallbackTier, arr, latest, st, category) ==
    [ sponsor |-> sponsor,
      dateNow |-> n,
      validTransactions |-> arr.sorted,
      latestRecurringTransaction |-> latest.recurring,
      latestSpecialOneTime |-> latest.special,
      latestOneTimeTransaction |-> latest.oneTime,
      daysSinceLastRecurring |-> DaysSinceOrInfinity(latest.recurring, n),
      daysSinceLastOneTime |-> DaysSinceOrInfinity(latest.oneTime, n),
      isWithinSpecialWindow |-> st.isWithinSpecialWindow,
      totalLifetimeAmount |-> SumProcessed(arr.valid),
      currentMonthlyAmount |-> st.currentMonthlyAmount,
      highestTierAmount |-> MathMax(TierAmounts(arr.valid)),
      isOneTime |-> \/ Len(arr.recurring) = 0
                    \/ 2 * Len(arr.recurring) < Len(arr.valid),
      firstSponsorshipDate |-> sponsor.sponsorship_started_on,
      latestTransactionDate |-> latest.any[1].transaction_date,
      daysSinceLastTransaction |->
          DaysSince(latest.any[1].transaction_date, n),
      tierName |->
          TierNameOf(ComputePrimaryTier(
              category, st.isWithinSpecialWindow, latest.special,
              st.isCurrentlyActive, latest.recurring, latest.oneTime,
              fallbackTier)),
      isCurrentlyActive |-> st.isCurrentlyActive,
      category |-> category,
      hasRecurringTiers |-> Len(arr.recurring) > 0,
      recurringTransactions |-> SortByDateDesc(arr.recurring),
      oneTimeTransactions |-> SortByDateDesc(arr.oneTime),
      recurringTierAmount |->
          IF Len(arr.recurring) > 0 THEN MathMax(TierAmounts(arr.recurring))
          ELSE Num(0) ]

IterationWith(sponsor, n, fallbackTier, arr, latest, st) ==
    IterationLocals(sponsor, n, fallbackTier, arr, latest, st,
                    CategoryOf(n, arr, latest, st))

IterationFrom(sponsor, n, fallbackTier, arr, latest) ==
    IterationWith(sponsor, n, fallbackTier, arr, latest,
                  Status(sponsor, n, arr, latest))

IterationOver(sponsor, n, fallbackTier, arr) ==
    IterationFrom(sponsor, n, fallbackTier, arr, LatestTransactions(arr))

\* The local variables of one iteration for a sponsor that is not skipped,
\* computed with the clock reading n.  fallbackTier is the outcome of the
\* sort of the fallback branch of the primary tier selection.
Iteration(sponsor, n, fallbackTier) ==
    IterationOver(sponsor, n, fallbackTier, TransactionArrays(sponsor))

\* The outcomes of validTransactions.sort(by amount, descending)[0] in the
\* fallback branch: the head of the stable sort of the date-sorted array
\* when the comparator is consistent, any element otherwise.
FallbackTiersOf(validTransactions) ==
    IF AmountCmpConsistent(validTransactions)
    THEN {SortByAmountDesc(validTransactions)[1]}
    ELSE {validTransactions[i] : i \in 1..Len(validTransactions)}

FallbackTiers(sponsor) ==
    FallbackTiersOf(
        SortByDateDesc(SelectSeq(sponsor.transactions, IsValidStatus)))

----------------------------------------------------------------------------
(* fetchGitHubUser and the record pushed to validSponsors *)

null == "null"

\* What the profile request does once a token is configured: a profile
\* (response.ok), HTTP 404, HTTP 403, another HTTP status (thrown and
\* caught), or a network error thrown by fetch (caught).
FetchResponses == {"ok", "404", "403", "500", "network error"}

\* No request is made without a token.
ResponsesWith(token) == IF token THEN FetchResponses ELSE {"not requested"}

\* A URL is a tuple of the pieces it is concatenated from; NoUrl is null.
NoUrl == <<>>

\* The profile GitHub returns for a handle.
GitHubUserOf(username) ==
    [ login |-> username,
      name |-> null,
      blog |-> <<"https://blog.example/", username>>,
      html_url |-> <<"https://github.com/", username>>,
      avatar_url |-> <<"https://avatars.githubusercontent.com/u/", username>>,
      type |-> "Organization" ]

fetchGitHubUser_NoStatusCheck(token, username, response) ==
    IF ~token THEN <<>>
    ELSE IF response # "network error" THEN <<GitHubUserOf(username)>>
    ELSE <<>>

\* fetchGitHubUser(username, hasShownTokenWarning): the value returned, a
\* one-element sequence holding the profile, or <<>> for null.
fetchGitHubUser(token, username, response) ==
    IF ~token THEN <<>>
    ELSE IF response = "ok" THEN <<GitHubUserOf(username)>>
    ELSE <<>>

\* The number of "No GitHub token found" warnings one call prints, given
\* the value field of the object passed as hasShownTokenWarning.
TokenWarningsOfCall(token, shownValue) ==
    IF ~token /\ ~shownValue THEN 1 ELSE 0

Truthy(x) == x # null /\ x # ""

ProcessedSponsor(sponsor, l, githubUser) ==
    LET displayName ==
            IF Truthy(sponsor.sponsor_profile_name)
            THEN sponsor.sponsor_profile_name
            ELSE sponsor.sponsor_handle
        hasUser == githubUser # <<>>
        user == githubUser[1]
        websiteUrl ==
            IF hasUser /\ user.blog # NoUrl THEN user.blog ELSE NoUrl
    IN [ sponsor |->
           [ login |-> sponsor.sponsor_handle,
             name |-> IF hasUser /\ Truthy(user.name)
                      THEN user.name ELSE displayName,
             avatarUrl |->
                 IF hasUser THEN user.avatar_url
                 ELSE <<"https://avatars.githubusercontent.com/",
                        sponsor.sponsor_handle>>,
             websiteUrl |-> websiteUrl,
             linkUrl |->
                 IF hasUser THEN user.html_url
                 ELSE <<"https://github.com/", sponsor.sponsor_handle>>,
             type |-> IF hasUser THEN user.type ELSE "User" ],
         totalLifetimeAmount |-> l.totalLifetimeAmount,
         currentMonthlyAmount |-> l.currentMonthlyAmount,
         highestTierAmount |-> l.highestTierAmount,
         isOneTime |-> l.isOneTime,
         monthlyDollars |-> l.highestTierAmount,
         transactionCount |-> Len(l.validTransactions),
         firstSponsorshipDate |-> l.firstSponsorshipDate,
         latestTransactionDate |-> l.latestTransactionDate,
         tierName |-> l.tierName,
         isCurrentlyActive |-> l.isCurrentlyActive,
         daysSinceLastTransaction |-> l.daysSinceLastTransaction,
         category |-> l.category,
         privacyLevel |-> "PUBLIC",
         createdAt |-> l.firstSponsorshipDate,
         hasRecurringTiers |-> l.hasRecurringTiers,
         recurringTierAmount |-> l.recurringTierAmount ]

----------------------------------------------------------------------------
(* sortSponsors *)

Sign(x) == IF x < 0 THEN 0 - 1 ELSE IF x > 0 THEN 1 ELSE 0

\* categoryOrder = { special: 0, current: 1, past: 2 }: a category that is
\* not a key reads as undefined.
HasCategoryOrder(c) == c \in {"special", "current", "past"}

categoryOrder(c) ==
    CASE c = "special" -> 0 [] c = "current" -> 1 [] c = "past" -> 2

\* The comparator of sortSponsors, as sort() sees it: the sign of the
\* number returned, a NaN counting as 0.
SponsorCmp(a, b) ==
    IF a.category # b.category
    THEN IF HasCategoryOrder(a.category) /\ HasCategoryOrder(b.category)
         THEN Sign(categoryOrder(a.category) - categoryOrder(b.category))
         ELSE 0
    ELSE IF a.totalLifetimeAmount # b.totalLifetimeAmount
            \/ a.totalLifetimeAmount.nan
    THEN LET d == NumSub(b.totalLifetimeAmount, a.totalLifetimeAmount)
         IN IF d.nan THEN 0 ELSE Sign(d.v)
    ELSE IF a.highestTierAmount # b.highestTierAmount
            \/ a.highestTierAmount.nan
    THEN LET d == NumSub(b.highestTierAmount, a.highestTierAmount)
         IN IF d.nan THEN 0 ELSE Sign(d.v)
    ELSE Sign(b.createdAt - a.createdAt)

RECURSIVE InsertSponsor(_, _)
InsertSponsor(x, s) ==
    IF s = <<>> THEN <<x>>
    ELSE IF SponsorCmp(x, s[1]) < 0
         THEN <<x>> \o s
         ELSE <<s[1]>> \o InsertSponsor(x, Tail(s))

RECURSIVE StableSortSponsors(_)
StableSortSponsors(s) ==
    IF s = <<>> THEN <<>>
    ELSE InsertSponsor(s[Len(s)], StableSortSponsors(SubSeq(s, 1, Len(s) - 1)))

\* A consistent comparator orders the elements in equivalence classes.
SponsorCmpConsistent(s) ==
    \A i, j, k \in 1..Len(s) :
        /\ SponsorCmp(s[i], s[i]) = 0
        /\ SponsorCmp(s[i], s[j]) = 0 - SponsorCmp(s[j], s[i])
        /\ (SponsorCmp(s[i], s[j]) = 0 /\ SponsorCmp(s[j], s[k]) = 0
              => SponsorCmp(s[i], s[k]) = 0)
        /\ (SponsorCmp(s[i], s[j]) < 0 /\ SponsorCmp(s[j], s[k]) < 0
              => SponsorCmp(s[i], s[k]) < 0)

SponsorPermutations(s) ==
    { [i \in 1..Len(s) |-> s[f[i]]] :
        f \in { g \in [1..Len(s) -> 1..Len(s)] :
                  \A i, j \in 1..Len(s) : g[i] = g[j] => i = j } }

\* [...sponsors].sort(comparator): the stable sort when the comparator is
\* consistent; an implementation-defined order of the same elements
\* otherwise.
sortSponsors(s) ==
    IF SponsorCmpConsistent(s) THEN {StableSortSponsors(s)}
    ELSE SponsorPermutations(s)

----------------------------------------------------------------------------
(* formatAmount and the category filters of lib/utils.ts *)

DigitChar(d) == CHOOSE c \in Digit : DigitVal(c) = d

RECURSIVE Digits(_)
Digits(n) ==
    IF n < 10 THEN <<DigitChar(n)>>
    ELSE Digits(n \div 10) \o <<DigitChar(n % 10)>>

Abs(x) == IF x < 0 THEN 0 - x ELSE x

\* amount.toFixed(2) of an amount with at most two decimals.
ToFixed2(amount) ==
    IF amount.nan THEN <<"N", "a", "N">>
    ELSE (IF amount.v < 0 THEN <<"-">> ELSE <<>>)
         \o Digits(Abs(amount.v) \div 100)
         \o <<".", DigitChar((Abs(amount.v) % 100) \div 10),
              DigitChar(Abs(amount.v) % 10)>>

\* `$${amount.toFixed(2)}`
formatAmount(amount) == <<"$">> \o ToFixed2(amount)

HasCategory(sponsors, c) == SelectSeq(sponsors, LAMBDA sp : sp.category = c)

filterCurrentSponsors(sponsors) == HasCategory(sponsors, "current")

filterPastSponsors_NotCurrent(sponsors) ==
    SelectSeq(sponsors, LAMBDA sp : sp.category \notin {"current", "special"})

filterPastSponsors(sponsors) == HasCategory(sponsors, "past")

filterSpecialSponsors(sponsors) == HasCategory(sponsors, "special")

\* Imported from lib/utils.js by process-sponsors.ts; by its name and by the
\* category type of ProcessedSponsor it keeps the category "backers".
filterBackers(sponsors) == HasCategory(sponsors, "backers")

----------------------------------------------------------------------------
(* Inputs: the sponsorship export *)

Tier(name, amount) == [tier_name |-> name, tier_monthly_amount |-> amount]

TierR0 ==
    Tier(<<"$", "0", " ", "a", " ", "m", "o", "n", "t", "h">>,
         <<"$", "0", ".", "0", "0">>)

TierR3 ==
    Tier(<<"$", "3", " ", "a", " ", "m", "o", "n", "t", "h">>,
         <<"$", "3", ".", "0", "0">>)

TierR5 ==
    Tier(<<"$", "5", " ", "a", " ", "m", "o", "n", "t", "h">>,
         <<"$", "5", ".", "0", "0">>)

TierR100 ==
    Tier(<<"$", "1", "0", "0", " ", "a", " ", "m", "o", "n", "t", "h">>,
         <<"$", "1", "0", "0", ".", "0", "0">>)

TierO0 ==
    Tier(<<"$", "0", " ", "o", "n", "e", " ", "t", "i", "m", "e">>,
         <<"$", "0", ".", "0", "0">>)

TierO3 ==
    Tier(<<"$", "3", " ", "o", "n", "e", " ", "t", "i", "m", "e">>,
         <<"$", "3", ".", "0", "0">>)

TierO10 ==
    Tier(<<"$", "1", "0", " ", "o", "n", "e", " ", "t", "i", "m", "e">>,
         <<"$", "1", "0", ".", "0", "0">>)

TierO99 ==
    Tier(<<"$", "9", "9", " ", "o", "n", "e", " ", "t", "i", "m", "e">>,
         <<"$", "9", "9", ".", "9", "9">>)

TierO100 ==
    Tier(<<"$", "1", "0", "0", " ", "o", "n", "e", " ", "t", "i", "m", "e">>,
         <<"$", "1", "0", "0", ".", "0", "0">>)

TierO250 ==
    Tier(<<"$", "2", "5", "0", " ", "o", "n", "e", " ", "t", "i", "m", "e">>,
         <<"$", "2", "5", "0", ".", "0", "0">>)

\* The ages of the transactions of a tier, in ticks before Now0: the half
\* days next to the 45 and 400 day limits of a recurring payment, and next
\* to the 30 and 60 day limits of a one-time payment.
RecurringTiers == {TierR3, TierR5, TierR100}

RecurringAges == {91, 92, 801, 802}

OneTimeTiers == {TierO3, TierO10, TierO99, TierO100}

OneTimeAges == {61, 62}

LargeOneTimeAges == {62, 121, 122}

Transaction(tier, status, processed, date) ==
    [ tier_name |-> tier.tier_name,
      tier_monthly_amount |-> tier.tier_monthly_amount,
      processed_amount |-> processed,
      status |-> status,
      transaction_date |-> date ]

SeqsUpTo(S, n) == UNION { [1..k -> S] : k \in 0..n }

RawSponsor(handle, name, public, yearly, started, txs) ==
    [ sponsor_handle |-> handle,
      sponsor_profile_name |-> name,
      sponsorship_started_on |-> started,
      is_public |-> public,
      is_yearly |-> yearly,
      transactions |-> txs ]

\* Handles are unique in an export; the i-th record carries Handles[i].
Handles == <<"h1", "h2", "h3", "h4">>

ProfileNames == <<null, "Name 2", "", "Name 4">>

Settled(tier, age) ==
    Transaction(tier, "settled", tier.tier_monthly_amount, Now0 - age)

\* The settled transactions a sponsor's history is drawn from.
SettledTransactions ==
    { Settled(tier, age) : tier \in RecurringTiers, age \in RecurringAges }
    \cup { Settled(tier, age) : tier \in OneTimeTiers, age \in OneTimeAges }
    \cup { Settled(TierO250, age) : age \in LargeOneTimeAges }
    \cup { Settled(TierR0, 91), Settled(TierO0, 61) }

OneSponsorExports ==
    { <<RawSponsor(Handles[1], ProfileNames[1], TRUE, yearly, Now0 - 900, txs)>> :
        yearly \in BOOLEAN, txs \in SeqsUpTo(SettledTransactions, MaxTx) }

\* A whole export: public and private sponsors.  The history of a sponsor
\* is a settled monthly payment, a one-time payment settled by a credit
\* balance adjustment and a pending one-time payment, of which the export
\* lists any MaxTx or fewer in this order; the amount received differs from
\* the tier amount.
ExportHistory ==
    << Transaction(TierR5, "settled",
                   <<"$", "4", ".", "8", "5">>, Now0 - 91),
       Transaction(TierO100, "credit_balance_adjusted",
                   <<"$", "9", "7", ".", "5", "0">>, Now0 - 61),
       Transaction(TierO250, "pending",
                   <<"$", "2", "5", "0", ".", "0", "0">>, Now0 - 61) >>

Pick(h, I) ==
    [k \in 1..Cardinality(I) |->
        h[CHOOSE i \in I : Cardinality({j \in I : j < i}) = k - 1]]

ExportTransactionLists ==
    { Pick(ExportHistory, I) :
        I \in { J \in SUBSET (1..Len(ExportHistory)) : Cardinality(J) <= MaxTx } }

\* A private sponsor is skipped whatever its transactions are: one private
\* shape, with a settled payment, stands for all of them.
ExportShapes ==
    [public : {TRUE}, txs : ExportTransactionLists]
    \cup {[public |-> FALSE, txs |-> <<ExportHistory[1]>>]}

Exports ==
    UNION { { [i \in 1..k |->
                 RawSponsor(Handles[i], ProfileNames[i], f[i].public, FALSE,
                            Now0 - 900 + i, f[i].txs)] :
              f \in [1..k -> ExportShapes] } : k \in 0..MaxSponsors }

\* Tier names with and without the markers of a recurring tier, in both
\* letter cases, and a name that says "month" without any of the markers.
TierNames ==
    { <<"$", "5", " ", "a", " ", "m", "o", "n", "t", "h">>,
      <<"$", "5", " ", "m", "o", "n", "t", "h", "l", "y">>,
      <<"$", "5", "/", "m", "o", "n", "t", "h">>,
      <<"$", "5", " ", "A", " ", "M", "o", "n", "t", "h">>,
      <<"$", "5", " ", "M", "o", "n", "t", "h", "l", "y">>,
      <<"$", "5", " ", "p", "e", "r", " ", "m", "o", "n", "t", "h">>,
      <<"$", "5", " ", "o", "n", "e", " ", "t", "i", "m", "e">>,
      <<>> }

TierNameTransactions ==
    { Transaction(Tier(name, <<"$", "5", ".", "0", "0">>), status,
                  <<"$", "5", ".", "0", "0">>, Now0 - 61) :
        name \in TierNames, status \in {"settled", "pending"} }

TierNameExports ==
    { <<RawSponsor(Handles[1], ProfileNames[1], TRUE, FALSE, Now0 - 900, txs)>> :
        txs \in SeqsUpTo(TierNameTransactions, MaxTx) }

\* The histories of the sponsors of a run of the script: a $3 and a $5
\* monthly sponsor paid 45 days ago, a $100 one-time payment 30 days old, a
\* $10 one-time payment 31 days old, a lapsed $5 monthly sponsor with a
\* later $10 one-time payment, and a $10 one-time payment whose received
\* amount is not a number.
NotAnAmount == <<"N", "/", "A">>

MainHistories ==
    { <<Settled(TierR3, 91)>>,
      <<Settled(TierR5, 91)>>,
      <<Settled(TierO100, 61)>>,
      <<Settled(TierO10, 62)>>,
      <<Settled(TierR5, 92), Settled(TierO10, 62)>>,
      <<Transaction(TierO10, "settled", NotAnAmount, Now0 - 61)>> }

MainExports ==
    UNION { { [i \in 1..k |->
                 RawSponsor(Handles[i], ProfileNames[i], TRUE, FALSE,
                            Now0 - 900 + i, f[i])] :
              f \in [1..k -> MainHistories] } : k \in 0..MaxSponsors }

----------------------------------------------------------------------------
(* processSponsorData *)

IsPrivate_NeverSkips(sponsor) == FALSE

\* if (!sponsor.is_public) continue
IsPrivate(sponsor) == ~sponsor.is_public

\* if (validTransactions.length === 0) continue
HasNoValidTransaction(sponsor) ==
    Len(SelectSeq(sponsor.transactions, IsValidStatus)) = 0

\* The scripts other than sponsorkit-enhanced.ts keep no sponsor lists.
NothingTracked ==
    /\ args = {}
    /\ disk = <<>>
    /\ oldSponsors = <<>>
    /\ newSponsors = <<>>

\* Only the fetch-sponsors script requests pages of sponsors.
NothingFetched ==
    /\ pages = <<>>
    /\ queryName = ""
    /\ allSponsors = <<>>
    /\ hasNextPage = FALSE
    /\ cursor = 0
    /\ activeSponsors = <<>>
    /\ pastSponsors = <<>>

\* Nothing written, nothing done, still running.
RunStarts(yes, export, existing) ==
    /\ autoYes = yes
    /\ exportFile = export
    /\ files = existing
    /\ output = <<>>
    /\ events = <<>>
    /\ exitCode = "running"
    /\ NothingTracked
    /\ NothingFetched

CallStarts(token, export) ==
    /\ GITHUB_TOKEN = token
    /\ rawSponsors = export
    /\ idx = 0
    /\ validSponsors = <<>>
    /\ locals = <<>>
    /\ tokenWarnings = 0
    /\ now = Now0
    /\ result = <<>>

\* A call of processSponsorData(export).
InitWith(token, export) ==
    /\ CallStarts(token, export)
    /\ pc = "loop"
    /\ RunStarts(FALSE, "ok", {})

Init == \E token \in BOOLEAN, export \in Exports : InitWith(token, export)

InitOne == \E export \in OneSponsorExports : InitWith(FALSE, export)

\* The clock readings possible after an await.
LaterClock == { n \in {now, now + 1} : n <= Now0 + MaxTicks }

\* One iteration of `for (const sponsor of rawSponsors)`.
LoopIteration ==
    /\ pc = "loop"
    /\ idx < Len(rawSponsors)
    /\ idx' = idx + 1
    /\ LET sponsor == rawSponsors[idx + 1]
       IN IF IsPrivate(sponsor) \/ HasNoValidTransaction(sponsor)
          THEN UNCHANGED <<validSponsors, locals, tokenWarnings, now>>
          ELSE \E fallbackTier \in FallbackTiers(sponsor),
                  response \in ResponsesWith(GITHUB_TOKEN) :
                 LET l == Iteration(sponsor, now, fallbackTier)
                     \* the object literal { value: hasShownTokenWarning }
                     \* is built from the local, which is never assigned
                     hasShownTokenWarning == FALSE
                     githubUser ==
                         fetchGitHubUser(GITHUB_TOKEN, sponsor.sponsor_handle,
                                         response)
                 IN /\ locals' = <<l @@ [response |-> response]>>
                    /\ tokenWarnings' = tokenWarnings
                          + TokenWarningsOfCall(GITHUB_TOKEN,
                                                hasShownTokenWarning)
                    /\ validSponsors' = Append(validSponsors,
                          ProcessedSponsor(sponsor, l, githubUser))
                    /\ now' \in LaterClock
    /\ UNCHANGED <<GITHUB_TOKEN, rawSponsors, pc, result>>
    /\ UNCHANGED runVars
    /\ UNCHANGED trackVars
    /\ UNCHANGED fetchVars

\* return sortSponsors(validSponsors)
Return ==
    /\ pc = "loop"
    /\ idx = Len(rawSponsors)
    /\ result' \in sortSponsors(validSponsors)
    /\ pc' = "returned"
    /\ UNCHANGED <<GITHUB_TOKEN, rawSponsors, idx, validSponsors, locals,
                   tokenWarnings, now>>
    /\ UNCHANGED runVars
    /\ UNCHANGED trackVars
    /\ UNCHANGED fetchVars

Next == LoopIteration \/ Return

Spec == Init /\ [][Next]_vars

SpecOne == InitOne /\ [][Next]_vars

\* One public sponsor, for the properties of its category at later clock
\* readings.
SpecOverTime == InitOne /\ [][Next]_vars

InitTier == \E export \in TierNameExports : InitWith(FALSE, export)

SpecTier == InitTier /\ [][Next]_vars

----------------------------------------------------------------------------
(* generateSponsorsJson *)

\* sponsors.reduce((sum, s) => sum + s.totalLifetimeAmount, 0)
RECURSIVE SumLifetime(_)
SumLifetime(sponsors) ==
    IF sponsors = <<>> THEN Num(0)
    ELSE NumAdd(SumLifetime(SubSeq(sponsors, 1, Len(sponsors) - 1)),
                sponsors[Len(sponsors)].totalLifetimeAmount)

RECURSIVE SumMonthly(_)
SumMonthly(sponsors) ==
    IF sponsors = <<>> THEN Num(0)
    ELSE NumAdd(SumMonthly(SubSeq(sponsors, 1, Len(sponsors) - 1)),
                sponsors[Len(sponsors)].currentMonthlyAmount)

TotalMonthly_WithoutBackers(sponsors) ==
    SumMonthly(SelectSeq(sponsors, LAMBDA sp : sp.category # "backers"
                                               /\ sp.isCurrentlyActive))

\* sponsors.filter((s) => s.isCurrentlyActive).reduce(...)
TotalMonthly(sponsors) ==
    SumMonthly(SelectSeq(sponsors, LAMBDA sp : sp.isCurrentlyActive))

\* `since ${month} ${year}` of a date, on a calendar of twelve months of
\* thirty days.
formatSinceWhen(date) ==
    [ month |-> (date \div (30 * MS_PER_DAY)) % 12,
      year |-> date \div (360 * MS_PER_DAY) ]

\* JSON.stringify writes a NaN as null.
JsonNumber(x) == [null |-> x.nan, v |-> IF x.nan THEN 0 ELSE x.v]

BaseData(sponsor) ==
    [ name |-> sponsor.sponsor.name,
      githubId |-> sponsor.sponsor.login,
      avatarUrl |-> sponsor.sponsor.avatarUrl,
      websiteUrl |-> sponsor.sponsor.websiteUrl,
      githubUrl |-> sponsor.sponsor.linkUrl,
      tierName |-> sponsor.tierName,
      sinceWhen |-> formatSinceWhen(sponsor.firstSponsorshipDate),
      transactionCount |-> sponsor.transactionCount ]

formatSponsorForUI_Always(sponsor) ==
    BaseData(sponsor)
    @@ [ totalProcessedAmount |-> JsonNumber(sponsor.totalLifetimeAmount),
         formattedAmount |-> formatAmount(sponsor.totalLifetimeAmount) ]

formatSponsorForUI(sponsor) ==
    IF sponsor.transactionCount > 1
    THEN BaseData(sponsor)
         @@ [ totalProcessedAmount |-> JsonNumber(sponsor.totalLifetimeAmount),
              formattedAmount |-> formatAmount(sponsor.totalLifetimeAmount) ]
    ELSE BaseData(sponsor)

MapForUI(sponsors) ==
    [i \in 1..Len(sponsors) |-> formatSponsorForUI(sponsors[i])]

\* sponsors[0]?.totalLifetimeAmount || 0: NaN and 0 are falsy.
OrZero(x) == IF x.nan THEN Num(0) ELSE x

TopSponsor(sponsors) ==
    IF Len(sponsors) > 0
    THEN << [ name |-> IF Truthy(sponsors[1].sponsor.name)
                       THEN sponsors[1].sponsor.name ELSE "Unknown",
              amount |-> JsonNumber(OrZero(sponsors[1].totalLifetimeAmount)) ] >>
    ELSE <<>>

Summary(sponsors) ==
    [ total_sponsors |-> Len(sponsors),
      total_lifetime_amount |-> JsonNumber(SumLifetime(sponsors)),
      total_current_monthly |-> JsonNumber(TotalMonthly(sponsors)),
      special_sponsors |-> Len(filterSpecialSponsors(sponsors)),
      current_sponsors |-> Len(filterCurrentSponsors(sponsors)),
      past_sponsors |-> Len(filterPastSponsors(sponsors)),
      backers |-> Len(filterBackers(sponsors)),
      top_sponsor |-> TopSponsor(sponsors) ]

\* The document written to generated/sponsors.json.
OutputDocument(sponsors, generatedAt) ==
    [ generated_at |-> generatedAt,
      summary |-> Summary(sponsors),
      specialSponsors |-> MapForUI(filterSpecialSponsors(sponsors)),
      sponsors |-> MapForUI(filterCurrentSponsors(sponsors)),
      pastSponsors |-> MapForUI(filterPastSponsors(sponsors)),
      backers |-> MapForUI(filterBackers(sponsors)) ]

----------------------------------------------------------------------------
(* main of scripts/process-sponsors.ts *)

Event(op, what) == [op |-> op, what |-> what]

GITHUB_EXPORT_FILE == "AmanVarshney01-sponsorships-all-time.json"

OUTPUT_SPONSORS_JSON == "generated/sponsors.json"

\* A run of the script: the export file is missing, is not a JSON array of
\* sponsors, or holds an export; ./sponsors.json may exist.
InitMain ==
    \E yes \in BOOLEAN, existing \in SUBSET {"sponsors.json"} :
       /\ pc = "main"
       /\ \/ \E export \in MainExports :
                /\ CallStarts(FALSE, export)
                /\ RunStarts(yes, "ok", existing)
          \/ \E state \in {"missing", "unparseable"} :
                /\ CallStarts(FALSE, <<>>)
                /\ RunStarts(yes, state, existing)

\* process.exit(1)
ExitOne ==
    /\ exitCode' = "1"
    /\ pc' = "exited"

\* if (!existsSync(GITHUB_EXPORT_FILE)) process.exit(1)
CheckExportFile ==
    /\ pc = "main"
    /\ IF exportFile = "missing" THEN ExitOne
       ELSE pc' = "read" /\ UNCHANGED exitCode
    /\ UNCHANGED callVars
    /\ UNCHANGED <<autoYes, exportFile, files, output, events>>
    /\ UNCHANGED trackVars
    /\ UNCHANGED fetchVars

ReadExport_IgnoresParseError ==
    /\ pc = "read"
    /\ pc' = "loop"
    /\ UNCHANGED callVars
    /\ UNCHANGED runVars
    /\ UNCHANGED trackVars
    /\ UNCHANGED fetchVars

\* await Bun.file(GITHUB_EXPORT_FILE).json(), inside the try block: a
\* parse error is caught and ends the run with process.exit(1).
ReadExport ==
    /\ pc = "read"
    /\ IF exportFile = "unparseable" THEN ExitOne
       ELSE pc' = "loop" /\ UNCHANGED exitCode
    /\ UNCHANGED callVars
    /\ UNCHANGED <<autoYes, exportFile, files, output, events>>
    /\ UNCHANGED trackVars
    /\ UNCHANGED fetchVars

\* generateSponsorsJson(processedSponsors)
GenerateSponsorsJson ==
    /\ pc = "returned"
    /\ exitCode = "running"
    /\ output' = <<OutputDocument(result, now)>>
    /\ files' = files \cup {OUTPUT_SPONSORS_JSON}
    /\ events' = Append(events, Event("write", OUTPUT_SPONSORS_JSON))
    /\ pc' = "generated"
    /\ UNCHANGED callVars
    /\ UNCHANGED <<autoYes, exportFile, exitCode>>
    /\ UNCHANGED trackVars
    /\ UNCHANGED fetchVars

\* uploadToR2(file) of process-sponsors.ts: what the call adds to events.
\* The file is looked up in the working directory.
UploadOutcomes(file) ==
    IF file \notin files THEN {Event("upload skipped", file)}
    ELSE {Event("upload ok", file), Event("upload failed", file)}

\* if (autoYes) { await uploadToR2("sponsors.json"); console.log(...) }
UploadSponsorsJson ==
    /\ pc = "generated"
    /\ autoYes
    /\ \E e \in UploadOutcomes("sponsors.json") :
          events' = events \o <<e, Event("log", "Files uploaded to R2 bucket")>>
    /\ pc' = "done"
    /\ exitCode' = "0"
    /\ UNCHANGED callVars
    /\ UNCHANGED <<autoYes, exportFile, files, output>>
    /\ UNCHANGED trackVars
    /\ UNCHANGED fetchVars

\* else console.log("Run with --yes to upload files to R2")
NoUpload ==
    /\ pc = "generated"
    /\ ~autoYes
    /\ pc' = "done"
    /\ exitCode' = "0"
    /\ UNCHANGED callVars
    /\ UNCHANGED <<autoYes, exportFile, files, output, events>>
    /\ UNCHANGED trackVars
    /\ UNCHANGED fetchVars

MainNext ==
    \/ CheckExportFile
    \/ ReadExport
    \/ LoopIteration
    \/ Return
    \/ GenerateSponsorsJson
    \/ UploadSponsorsJson
    \/ NoUpload

SpecMain == InitMain /\ [][MainNext]_vars

----------------------------------------------------------------------------
(* main of scripts/upload-sponsorkit-to-r2.ts *)

\* The three generated files, in the order main uploads them.
KitFiles ==
    <<"generated/sponsors.json", "generated/sponsors.svg",
      "generated/sponsors.png">>

\* The commands of the three steps, in the order main awaits them; the
\* i-th command writes KitFiles[i].
KitCommands ==
    <<"bun scripts/process-sponsors.ts", "bun scripts/generate-sponsors.ts",
      "bunx sharp-cli">>

\* A run of the script, with or without --yes; any of the generated files
\* may be left over from an earlier run.
InitKit ==
    \E yes \in BOOLEAN, existing \in SUBSET {KitFiles[i] : i \in 1..3} :
       /\ pc = "runSponsorProcessor"
       /\ CallStarts(FALSE, <<>>)
       /\ RunStarts(yes, "ok", existing)

\* Every step of main ends at an await, over which time passes; the script
\* calls nothing of processSponsorData.
KitAwait ==
    /\ now' \in LaterClock
    /\ UNCHANGED <<GITHUB_TOKEN, rawSponsors, idx, validSponsors, locals,
                   tokenWarnings, result>>

\* What a command may do: succeed, having written its file; fail before it
\* wrote the file; fail after it wrote it.
CommandOutcomes == {"ok", "failed", "failed after writing"}

RunStep_GoesOn(i, nextPc) ==
    \E outcome \in CommandOutcomes :
       /\ events' = Append(events, Event(IF outcome = "ok" THEN "run ok"
                                         ELSE "run failed", KitCommands[i]))
       /\ files' = IF outcome = "failed" THEN files
                   ELSE files \cup {KitFiles[i]}
       /\ pc' = nextPc
       /\ UNCHANGED exitCode

\* try { await Bun.$`command` } catch (err) { process.exit(1) }
RunStep(i, nextPc) ==
    \E outcome \in CommandOutcomes :
       /\ files' = IF outcome = "failed" THEN files
                   ELSE files \cup {KitFiles[i]}
       /\ IF outcome = "ok"
          THEN /\ events' = Append(events, Event("run ok", KitCommands[i]))
               /\ pc' = nextPc
               /\ UNCHANGED exitCode
          ELSE /\ events' = Append(events, Event("run failed", KitCommands[i]))
               /\ ExitOne

runSponsorProcessor ==
    /\ pc = "runSponsorProcessor"
    /\ RunStep(1, "generateSponsorBanner")
    /\ KitAwait
    /\ UNCHANGED <<autoYes, exportFile, output>>
    /\ UNCHANGED trackVars
    /\ UNCHANGED fetchVars

generateSponsorBanner ==
    /\ pc = "generateSponsorBanner"
    /\ RunStep(2, "generatePNG")
    /\ KitAwait
    /\ UNCHANGED <<autoYes, exportFile, output>>
    /\ UNCHANGED trackVars
    /\ UNCHANGED fetchVars

generatePNG ==
    /\ pc = "generatePNG"
    /\ RunStep(3, "steps done")
    /\ KitAwait
    /\ UNCHANGED <<autoYes, exportFile, output>>
    /\ UNCHANGED trackVars
    /\ UNCHANGED fetchVars

\* if (!autoYes) { ...; return }
KitNoUpload ==
    /\ pc = "steps done"
    /\ ~autoYes
    /\ pc' = "done"
    /\ exitCode' = "0"
    /\ UNCHANGED callVars
    /\ UNCHANGED <<autoYes, exportFile, files, output, events>>
    /\ UNCHANGED trackVars
    /\ UNCHANGED fetchVars

UploadEvents == {"upload ok", "upload failed", "upload skipped"}

\* The number of uploadToR2 calls made so far.
UploadCalls ==
    Cardinality({ k \in 1..Len(events) : events[k].op \in UploadEvents })

\* One of the three `await uploadToR2(sourceFile, targetKey)`; the last is
\* followed by the closing messages.
KitUploadToR2 ==
    /\ pc = "steps done"
    /\ autoYes
    /\ UploadCalls < 3
    /\ \E e \in UploadOutcomes(KitFiles[UploadCalls + 1]) :
          IF UploadCalls = 2
          THEN /\ events' = events
                    \o <<e, Event("log", "All files uploaded to R2 bucket")>>
               /\ pc' = "done"
               /\ exitCode' = "0"
          ELSE /\ events' = Append(events, e)
               /\ UNCHANGED <<pc, exitCode>>
    /\ KitAwait
    /\ UNCHANGED <<autoYes, exportFile, files, output>>
    /\ UNCHANGED trackVars
    /\ UNCHANGED fetchVars

KitNext ==
    \/ runSponsorProcessor
    \/ generateSponsorBanner
    \/ generatePNG
    \/ KitNoUpload
    \/ KitUploadToR2

SpecKit == InitKit /\ [][KitNext]_vars

----------------------------------------------------------------------------
(* sponsorkit-enhanced.ts *)

SPONSORS_JSON == "sponsorkit/sponsors.json"

BACKUP_JSON == "sponsorkit/sponsors.backup.json"

\* A JSON value of a record: a string or a number, with its text.
JsonString(text) == [type |-> "string", text |-> text]

JsonNum(text) == [type |-> "number", text |-> text]

Field(key, value) == [key |-> key, value |-> value]

\* A sponsor record as JSON.parse builds it: its fields in the order of the
\* text.  The field "login" stands for sponsor.login.
SponsorRecord(fields) == fields

login(sponsor) ==
    sponsor[CHOOSE i \in 1..Len(sponsor) : sponsor[i].key = "login"].value.text

ValueText(value) ==
    IF value.type = "string" THEN <<"\"", value.text, "\"">>
    ELSE <<value.text>>

RECURSIVE FieldsText(_)
FieldsText(fields) ==
    IF fields = <<>> THEN <<>>
    ELSE <<"\"", fields[1].key, "\"", ":">> \o ValueText(fields[1].value)
         \o (IF Len(fields) > 1 THEN <<",">> ELSE <<>>)
         \o FieldsText(Tail(fields))

\* JSON.stringify(sponsor): the fields in the order the record holds them.
JSONstringify(sponsor) == <<"{">> \o FieldsText(sponsor) \o <<"}">>

\* A Map, as the sequence of its entries in insertion order.
MapHas(map, key) == \E i \in 1..Len(map) : map[i].key = key

MapGet(map, key) ==
    map[CHOOSE i \in 1..Len(map) : map[i].key = key].value

\* map.set(key, value): a key already present keeps its place.
MapSet(map, key, value) ==
    IF MapHas(map, key)
    THEN [i \in 1..Len(map) |->
             IF map[i].key = key THEN [key |-> key, value |-> value]
             ELSE map[i]]
    ELSE Append(map, [key |-> key, value |-> value])

RECURSIVE createSponsorMap_KeepsFirst(_)
createSponsorMap_KeepsFirst(sponsors) ==
    IF sponsors = <<>> THEN <<>>
    ELSE MapSet(createSponsorMap_KeepsFirst(Tail(sponsors)),
                login(Head(sponsors)), Head(sponsors))

RECURSIVE createSponsorMap(_)
createSponsorMap(sponsors) ==
    IF sponsors = <<>> THEN <<>>
    ELSE MapSet(createSponsorMap(SubSeq(sponsors, 1, Len(sponsors) - 1)),
                login(sponsors[Len(sponsors)]), sponsors[Len(sponsors)])

MapValues(map) == [i \in 1..Len(map) |-> map[i].value]

\* The entries of newMap whose key oldMap lacks.
AddedEntries(oldMap, newMap) ==
    SelectSeq(newMap, LAMBDA e : ~MapHas(oldMap, e.key))

\* The entries of newMap whose key oldMap has with another JSON text.
ChangedEntries(oldMap, newMap) ==
    SelectSeq(newMap, LAMBDA e :
        /\ MapHas(oldMap, e.key)
        /\ JSONstringify(MapGet(oldMap, e.key)) # JSONstringify(e.value))

ChangedPairs(oldMap, entries) ==
    [i \in 1..Len(entries) |->
        [old |-> MapGet(oldMap, entries[i].key), new |-> entries[i].value]]

\* The entries of oldMap whose login is no key of newMap.
RemovedEntries(oldMap, newMap) ==
    SelectSeq(oldMap, LAMBDA e : ~MapHas(newMap, login(e.value)))

CompareMaps(oldMap, newMap) ==
    [ added |-> MapValues(AddedEntries(oldMap, newMap)),
      removed |-> MapValues(RemovedEntries(oldMap, newMap)),
      changed |-> ChangedPairs(oldMap, ChangedEntries(oldMap, newMap)) ]

compareSponsorData(old, new) ==
    CompareMaps(createSponsorMap(old), createSponsorMap(new))

\* The records of the lists compared: a sponsor at $5 and at $10 a month,
\* the $5 record with its fields in the other order, and another sponsor.
MaxRecords == 2

RecordA5 ==
    SponsorRecord(<<Field("login", JsonString("a")),
                    Field("monthlyDollars", JsonNum("5"))>>)

RecordA10 ==
    SponsorRecord(<<Field("login", JsonString("a")),
                    Field("monthlyDollars", JsonNum("10"))>>)

RecordA5Reordered ==
    SponsorRecord(<<Field("monthlyDollars", JsonNum("5")),
                    Field("login", JsonString("a"))>>)

RecordB5 ==
    SponsorRecord(<<Field("login", JsonString("b")),
                    Field("monthlyDollars", JsonNum("5"))>>)

Records == {RecordA5, RecordA10, RecordA5Reordered, RecordB5}

CompareLists == SeqsUpTo(Records, MaxRecords)

\* A call of displayChanges(oldSponsors, newSponsors).
InitCompare ==
    \E old \in CompareLists, new \in CompareLists :
       /\ pc = "displayChanges"
       /\ CallStarts(FALSE, <<>>)
       /\ autoYes = FALSE /\ exportFile = "ok" /\ files = {}
       /\ output = <<>> /\ events = <<>> /\ exitCode = "running"
       /\ args = {}
       /\ disk = <<>>
       /\ oldSponsors = old
       /\ newSponsors = new
       /\ NothingFetched

\* const { added, removed, changed } = compareSponsorData(old, new),
\* then printed.
displayChanges ==
    /\ pc = "displayChanges"
    /\ events' = Append(events, Event("displayChanges",
                            compareSponsorData(oldSponsors, newSponsors)))
    /\ pc' = "done"
    /\ UNCHANGED callVars
    /\ UNCHANGED <<autoYes, exportFile, files, output, exitCode>>
    /\ UNCHANGED trackVars
    /\ UNCHANGED fetchVars

SpecCompare == InitCompare /\ [][displayChanges]_vars

\* A file: absent, or present with a content that is no JSON or is the JSON
\* text of a list of sponsor records.
NoFile == <<>>

NotJson == <<<<>>>>

JsonFile(list) == <<<<list>>>>

\* loadSponsors(filePath): [] for a missing file and for a parse error.
loadSponsors(file) ==
    IF file = NoFile THEN <<>>
    ELSE IF file = NotJson THEN <<>>
    ELSE file[1][1]

DiskLists == {<<>>, <<RecordA5>>, <<RecordA10, RecordB5>>}

DiskFiles == {NoFile, NotJson} \cup { JsonFile(list) : list \in DiskLists }

Flags == {"--help", "--check", "-c"}

checkOnly == "--check" \in args \/ "-c" \in args

\* A run of the script with any of the flags, the two files being absent
\* or left by earlier runs.
InitEnhanced ==
    \E flags \in SUBSET Flags, current \in DiskFiles, backup \in DiskFiles :
       /\ pc = "main"
       /\ CallStarts(FALSE, <<>>)
       /\ autoYes = FALSE /\ exportFile = "ok" /\ files = {}
       /\ output = <<>> /\ events = <<>> /\ exitCode = "running"
       /\ args = flags
       /\ disk = [SPONSORS_JSON |-> current, BACKUP_JSON |-> backup]
       /\ oldSponsors = <<>>
       /\ newSponsors = <<>>
       /\ NothingFetched

EnhancedFrame ==
    /\ UNCHANGED callVars
    /\ UNCHANGED fetchVars
    /\ UNCHANGED <<autoYes, exportFile, files, output, args>>

\* if (args.includes('--help') || args.includes('-h')) { ...; return }
ShowHelp ==
    /\ pc = "main"
    /\ "--help" \in args
    /\ pc' = "done"
    /\ exitCode' = "0"
    /\ UNCHANGED <<events, disk, oldSponsors, newSponsors>>
    /\ EnhancedFrame

CheckMissing_BackupOnly(d) == d.BACKUP_JSON = NoFile

\* One of the two files of a --check run does not exist.
CheckMissing(d) == d.BACKUP_JSON = NoFile \/ d.SPONSORS_JSON = NoFile

\* if (checkOnly) { ... return }: the exchange rate fetched before it only
\* sets the rate createCompactTable prints.
CheckOnly ==
    /\ pc = "main"
    /\ "--help" \notin args
    /\ checkOnly
    /\ IF CheckMissing(disk)
       THEN /\ ExitOne
            /\ UNCHANGED <<events, oldSponsors, newSponsors>>
       ELSE /\ oldSponsors' = loadSponsors(disk.BACKUP_JSON)
            /\ newSponsors' = loadSponsors(disk.SPONSORS_JSON)
            /\ events' = Append(events, Event("displayChanges",
                  compareSponsorData(loadSponsors(disk.BACKUP_JSON),
                                     loadSponsors(disk.SPONSORS_JSON))))
            /\ pc' = "done"
            /\ exitCode' = "0"
    /\ UNCHANGED disk
    /\ EnhancedFrame

\* await backupFileIfExists(): sponsors.json, when it exists, is copied to
\* the backup; a write that fails rejects main, whose catch exits with 1.
backupFileIfExists ==
    /\ pc = "main"
    /\ "--help" \notin args
    /\ ~checkOnly
    /\ \E written \in BOOLEAN :
          IF disk.SPONSORS_JSON = NoFile
          THEN /\ written
               /\ pc' = "backed up"
               /\ UNCHANGED <<events, disk, exitCode>>
          ELSE IF written
          THEN /\ disk' = [disk EXCEPT !.BACKUP_JSON = disk.SPONSORS_JSON]
               /\ events' = Append(events, Event("write", BACKUP_JSON))
               /\ pc' = "backed up"
               /\ UNCHANGED exitCode
          ELSE /\ ExitOne
               /\ UNCHANGED <<events, disk>>
    /\ UNCHANGED <<oldSponsors, newSponsors>>
    /\ EnhancedFrame

\* const oldSponsors = await loadSponsors(BACKUP_JSON)
LoadOldSponsors ==
    /\ pc = "backed up"
    /\ oldSponsors' = loadSponsors(disk.BACKUP_JSON)
    /\ pc' = "sponsorkit"
    /\ UNCHANGED <<events, disk, newSponsors, exitCode>>
    /\ EnhancedFrame

\* try { await Bun.$`sponsorkit` } catch (err) { process.exit(1) }: the
\* command writes sponsors.json when it succeeds and may have written it
\* when it fails.  The entry records what sponsors.json held before.
RunSponsorkit ==
    /\ pc = "sponsorkit"
    /\ \E outcome \in CommandOutcomes, list \in DiskLists :
          /\ events' = Append(events,
                Event("sponsorkit", [before |-> disk.SPONSORS_JSON,
                                     outcome |-> outcome]))
          /\ disk' = IF outcome = "failed" THEN disk
                     ELSE [disk EXCEPT !.SPONSORS_JSON = JsonFile(list)]
          /\ IF outcome = "ok"
             THEN pc' = "report" /\ UNCHANGED exitCode
             ELSE ExitOne
    /\ UNCHANGED <<oldSponsors, newSponsors>>
    /\ EnhancedFrame

\* const newSponsors = await loadSponsors(SPONSORS_JSON), then the change
\* report, or the first-run message when oldSponsors is empty.
ReportChanges ==
    /\ pc = "report"
    /\ newSponsors' = loadSponsors(disk.SPONSORS_JSON)
    /\ events' = Append(events,
          IF Len(oldSponsors) > 0
          THEN Event("displayChanges",
                     compareSponsorData(oldSponsors,
                                        loadSponsors(disk.SPONSORS_JSON)))
          ELSE Event("first run", Len(loadSponsors(disk.SPONSORS_JSON))))
    /\ pc' = "done"
    /\ exitCode' = "0"
    /\ UNCHANGED <<disk, oldSponsors>>
    /\ EnhancedFrame

EnhancedNext ==
    \/ ShowHelp
    \/ CheckOnly
    \/ backupFileIfExists
    \/ LoadOldSponsors
    \/ RunSponsorkit
    \/ ReportChanges

SpecEnhanced == InitEnhanced /\ [][EnhancedNext]_vars

----------------------------------------------------------------------------
(* The fetch-sponsors script: fetchAllSponsors and main *)

SPONSORS_DATA_FILE == "github-sponsors-data.json"

MaxPages == 2

\* The nodes of a page: sponsorships, each standing for its sponsor id.
PageNodes == {<<>>, <<"s1">>, <<"s2">>}

\* What the endpoint serves for a query: one page at least.
PageLists == UNION { [1..k -> PageNodes] : k \in 1..MaxPages }

QueryNames == <<"active sponsors", "past sponsors">>

\* let allSponsors = []; let hasNextPage = true; let cursor = null
\* (the cursor is the number of the last page served, 0 for null).
CallFetchAllSponsors(name) ==
    /\ queryName' = name
    /\ allSponsors' = <<>>
    /\ hasNextPage' = TRUE
    /\ cursor' = 0

\* A run of the script against an endpoint serving any pages.
InitFetch ==
    \E active \in PageLists, past \in PageLists :
       /\ pc = "while"
       /\ CallStarts(FALSE, <<>>)
       /\ autoYes = FALSE /\ exportFile = "ok" /\ files = {}
       /\ output = <<>> /\ events = <<>> /\ exitCode = "running"
       /\ NothingTracked
       /\ pages = [active |-> active, past |-> past]
       /\ queryName = QueryNames[1]
       /\ allSponsors = <<>>
       /\ hasNextPage = TRUE
       /\ cursor = 0
       /\ activeSponsors = <<>>
       /\ pastSponsors = <<>>

PagesOf(name) == IF name = QueryNames[1] THEN pages.active ELSE pages.past

FetchFrame ==
    /\ UNCHANGED callVars
    /\ UNCHANGED trackVars
    /\ UNCHANGED <<autoYes, exportFile, pages>>

\* One iteration of `while (hasNextPage)`: the request succeeds, and the
\* nodes, hasNextPage and endCursor of the page are taken over, or it
\* fails, and the catch block leaves the loop.
RequestPage ==
    /\ pc = "while"
    /\ hasNextPage
    /\ \E ok \in BOOLEAN :
          IF ok
          THEN /\ allSponsors' = allSponsors \o PagesOf(queryName)[cursor + 1]
               /\ hasNextPage' = (cursor + 1 < Len(PagesOf(queryName)))
               /\ cursor' = cursor + 1
               /\ events' = Append(events,
                     Event("request", [query |-> queryName, after |-> cursor]))
               /\ UNCHANGED pc
          ELSE /\ events' = Append(events,
                     Event("request failed",
                           [query |-> queryName, after |-> cursor]))
               /\ pc' = "break"
               /\ UNCHANGED <<allSponsors, hasNextPage, cursor>>
    /\ UNCHANGED <<queryName, activeSponsors, pastSponsors, files, output,
                   exitCode>>
    /\ FetchFrame

\* return allSponsors, to main: the list of the first call is
\* activeSponsors and the second call starts; the list of the second is
\* pastSponsors.
ReturnAllSponsors ==
    /\ \/ pc = "while" /\ ~hasNextPage
       \/ pc = "break"
    /\ events' = Append(events, Event("return", [query |-> queryName,
                                                  after |-> cursor]))
    /\ IF queryName = QueryNames[1]
       THEN /\ activeSponsors' = allSponsors
            /\ CallFetchAllSponsors(QueryNames[2])
            /\ pc' = "while"
            /\ UNCHANGED pastSponsors
       ELSE /\ pastSponsors' = allSponsors
            /\ pc' = "save"
            /\ UNCHANGED <<queryName, allSponsors, hasNextPage, cursor,
                           activeSponsors>>
    /\ UNCHANGED <<files, output, exitCode>>
    /\ FetchFrame

\* The sponsorships of the list, the first of each sponsor id only.
RECURSIVE Deduplicate(_)
Deduplicate(list) ==
    IF list = <<>> THEN <<>>
    ELSE LET rest == Deduplicate(SubSeq(list, 1, Len(list) - 1))
         IN IF \E i \in 1..Len(rest) : rest[i] = list[Len(list)]
            THEN rest
            ELSE Append(rest, list[Len(list)])

OutputData ==
    [ activeSponsors |-> Len(activeSponsors),
      pastSponsors |-> Len(pastSponsors),
      totalSponsors |-> Len(Deduplicate(activeSponsors \o pastSponsors)),
      sponsors |-> Deduplicate(activeSponsors \o pastSponsors) ]

\* The rest of main: the lists are combined and written to
\* github-sponsors-data.json; a write that fails is caught and ends the run
\* with process.exit(1).
SaveData ==
    /\ pc = "save"
    /\ \E written \in BOOLEAN :
          IF written
          THEN /\ output' = <<OutputData>>
               /\ files' = files \cup {SPONSORS_DATA_FILE}
               /\ events' = Append(events,
                     Event("write", [query |-> SPONSORS_DATA_FILE,
                                     after |-> 0]))
               /\ pc' = "done"
               /\ exitCode' = "0"
          ELSE /\ ExitOne
               /\ UNCHANGED <<output, files, events>>
    /\ UNCHANGED fetchVars
    /\ UNCHANGED callVars
    /\ UNCHANGED trackVars
    /\ UNCHANGED <<autoYes, exportFile>>

FetchNext ==
    \/ RequestPage
    \/ ReturnAllSponsors
    \/ SaveData

SpecFetch == InitFetch /\ [][FetchNext]_vars

----------------------------------------------------------------------------
(* Properties of the list processSponsorData builds and returns *)

ValidStatuses == {"settled", "credit_balance_adjusted"}

ValidIndexes(r) ==
    { k \in 1..Len(r.transactions) : r.transactions[k].status \in ValidStatuses }

\* Every record pushed so far and every record of the returned list.
Outputs ==
    { validSponsors[j] : j \in 1..Len(validSponsors) }
    \cup { result[j] : j \in 1..Len(result) }

OutputLogins == { o.sponsor.login : o \in Outputs }

RawOf(o) ==
    rawSponsors[CHOOSE i \in 1..Len(rawSponsors) :
                    rawSponsors[i].sponsor_handle = o.sponsor.login]

Cents(amountStr) == parseAmount(amountStr).v

RECURSIVE SumProcessedCents(_, _)
SumProcessedCents(r, I) ==
    IF I = {} THEN 0
    ELSE LET k == CHOOSE x \in I : TRUE
         IN Cents(r.transactions[k].processed_amount)
            + SumProcessedCents(r, I \ {k})

\* C1: no sponsor with is_public = false occurs in the list that
\* processSponsorData builds and returns, and the returned list is no longer
\* than the number of public sponsors of the export.
C1_PrivateSponsorsExcluded ==
    /\ \A i \in 1..Len(rawSponsors) :
          ~rawSponsors[i].is_public
             => rawSponsors[i].sponsor_handle \notin OutputLogins
    /\ Len(result) <= Cardinality({ i \in 1..Len(rawSponsors) :
                                      rawSponsors[i].is_public })

C1_Witness ==
    /\ pc = "returned"
    /\ Len(result) >= 1
    /\ \E i \in 1..Len(rawSponsors) :
          /\ ~rawSponsors[i].is_public
          /\ ValidIndexes(rawSponsors[i]) # {}

\* C2: a sponsor none of whose transactions has the status settled or
\* credit_balance_adjusted never occurs in the output, and the transactions
\* an output sponsor is counted with are exactly those with one of the two
\* statuses.
C2_NoValidTransactionExcluded ==
    /\ \A i \in 1..Len(rawSponsors) :
          ValidIndexes(rawSponsors[i]) = {}
             => rawSponsors[i].sponsor_handle \notin OutputLogins
    /\ \A o \in Outputs :
          o.transactionCount = Cardinality(ValidIndexes(RawOf(o)))

C2_Witness ==
    /\ pc = "returned"
    /\ Len(result) >= 1
    /\ \E i \in 1..Len(rawSponsors) :
          /\ rawSponsors[i].is_public
          /\ Len(rawSponsors[i].transactions) >= 1
          /\ ValidIndexes(rawSponsors[i]) = {}

----------------------------------------------------------------------------
(* Properties of the classification of one sponsor.  They are stated over   *)
(* the local variables of the latest iteration that pushed a record: r is   *)
(* the sponsor of that iteration and n its clock reading.                   *)

HasLocals == locals # <<>>

L == locals[1]

RecurringIndexes(r) ==
    { k \in ValidIndexes(r) : isRecurringTier(r.transactions[k].tier_name) }

OneTimeIndexes(r) == ValidIndexes(r) \ RecurringIndexes(r)

TierCents(r, k) == Cents(r.transactions[k].tier_monthly_amount)

\* The one-time transactions of $100 or more.
LargeOneTimeIndexes(r) ==
    { k \in OneTimeIndexes(r) : TierCents(r, k) >= 100 * 100 }

\* The transactions of I with the latest date.
MostRecent(r, I) ==
    { k \in I : \A j \in I :
         r.transactions[j].transaction_date <= r.transactions[k].transaction_date }

WholeDays(r, k, n) ==
    (n - r.transactions[k].transaction_date) \div MS_PER_DAY

AtLeastOne(x) == IF x >= 1 THEN x ELSE 1

InSpecialWindow(r, k, n) ==
    WholeDays(r, k, n) <= AtLeastOne(TierCents(r, k) \div (100 * 100)) * 30

CategoryAfter(r, n) ==
    Iteration(r, n, CHOOSE t \in FallbackTiers(r) : TRUE).category

\* r with the tier amount of its k-th transaction replaced, all else kept.
WithTierAmount(r, k, amountStr) ==
    [r EXCEPT !.transactions[k].tier_monthly_amount = amountStr]

RaisedAmounts ==
    {TierO100.tier_monthly_amount, TierO250.tier_monthly_amount}

\* C6: for a sponsor whose category is special, raising the tier amount of
\* one valid one-time transaction from below $100 to $100 or more, with the
\* same clock reading and everything else unchanged, leaves the category
\* special.
C6_RaisingOneTimeKeepsSpecial ==
    (HasLocals /\ L.category = "special") =>
       \A k \in OneTimeIndexes(L.sponsor) \ LargeOneTimeIndexes(L.sponsor) :
          \A amountStr \in RaisedAmounts :
             CategoryAfter(WithTierAmount(L.sponsor, k, amountStr), L.dateNow)
                = "special"

RecurringRule(active, cents) ==
    IF cents >= 5 * 100 THEN (IF active THEN "current" ELSE "past")
    ELSE IF cents > 0 THEN "backers"
    ELSE "past"

\* r without its one-time transactions.
WithoutOneTime(r) ==
    [r EXCEPT !.transactions =
        SelectSeq(@, LAMBDA t : isRecurringTier(t.tier_name))]

OneTimeRule(cents, days) ==
    IF cents >= 5 * 100 THEN (IF days <= 30 THEN "current" ELSE "past")
    ELSE IF cents > 0 THEN "backers"
    ELSE "past"

LargestTier(r) ==
    { k \in ValidIndexes(r) :
         \A j \in ValidIndexes(r) : TierCents(r, j) <= TierCents(r, k) }

\* The transactions the tier name may be taken from, by first match.
TierChoices(r) ==
    IF L.category = "special" /\ L.isWithinSpecialWindow
    THEN MostRecent(r, LargeOneTimeIndexes(r))
    ELSE IF L.isCurrentlyActive /\ RecurringIndexes(r) # {}
    THEN MostRecent(r, RecurringIndexes(r))
    ELSE IF OneTimeIndexes(r) # {}
    THEN MostRecent(r, OneTimeIndexes(r))
    ELSE LargestTier(r)

\* C9: the tier name of the pushed record is that of: the most recent
\* one-time transaction of $100 or more when the category is special and
\* the sponsor is within the special window; else the latest recurring
\* transaction when currently active; else the latest one-time transaction
\* when there is one; else the valid transaction with the largest tier
\* amount.
C9_TierNameByFirstMatch ==
    HasLocals =>
       /\ validSponsors[Len(validSponsors)].tierName = L.tierName
       /\ \E k \in TierChoices(L.sponsor) :
             L.tierName = L.sponsor.transactions[k].tier_name

\* Special through an active $100 monthly tier and through the one-time
\* window at once: the one-time tier name is shown.
C9_Witness ==
    /\ HasLocals
    /\ L.isCurrentlyActive
    /\ L.currentMonthlyAmount.v >= 100 * 100
    /\ L.isWithinSpecialWindow
    /\ L.category = "special"
    /\ ~isRecurringTier(validSponsors[Len(validSponsors)].tierName)

\* r with only its valid transactions.
ValidOnly(r) ==
    [r EXCEPT !.transactions =
        SelectSeq(@, LAMBDA t : t.status \in ValidStatuses)]

HighestTierCents(r) ==
    CHOOSE c \in { TierCents(r, k) : k \in ValidIndexes(r) } :
       \A j \in ValidIndexes(r) : TierCents(r, j) <= c

\* C10: for every output sponsor, totalLifetimeAmount is the sum of
\* processed_amount over its transactions with a valid status,
\* transactionCount their number and highestTierAmount their largest tier
\* amount; and the category of a pushed sponsor is the one it has with its
\* other transactions removed from the export.
C10_OnlyValidTransactionsCount ==
    /\ \A o \in Outputs :
          /\ o.totalLifetimeAmount
                = Num(SumProcessedCents(RawOf(o), ValidIndexes(RawOf(o))))
          /\ o.transactionCount = Cardinality(ValidIndexes(RawOf(o)))
          /\ o.highestTierAmount = Num(HighestTierCents(RawOf(o)))
    /\ HasLocals =>
          L.category = CategoryAfter(ValidOnly(L.sponsor), L.dateNow)

\* A $5 monthly sponsor with a pending $250 one-time payment: $4.85
\* received, highest tier $5, current.
C10_Witness ==
    /\ pc = "returned"
    /\ \E o \in Outputs :
          /\ \E k \in 1..Len(RawOf(o).transactions) :
                /\ RawOf(o).transactions[k].status \notin ValidStatuses
                /\ Cents(RawOf(o).transactions[k].tier_monthly_amount) = 250 * 100
          /\ o.totalLifetimeAmount = Num(485)
          /\ o.highestTierAmount = Num(5 * 100)
          /\ o.category = "current"

----------------------------------------------------------------------------
(* Properties of the returned list and of the document written from it *)

Rank(c) ==
    CASE c = "special" -> 0 [] c = "current" -> 1 [] c = "past" -> 2
      [] c = "backers" -> 3

\* a may stand before b: a lower category rank, then a larger lifetime
\* total, then a larger highest tier amount, then a later creation date.
MayPrecede(a, b) ==
    \/ Rank(a.category) < Rank(b.category)
    \/ /\ a.category = b.category
       /\ \/ NumGt(a.totalLifetimeAmount, b.totalLifetimeAmount)
          \/ /\ a.totalLifetimeAmount = b.totalLifetimeAmount
             /\ \/ NumGt(a.highestTierAmount, b.highestTierAmount)
                \/ /\ a.highestTierAmount = b.highestTierAmount
                   /\ a.createdAt >= b.createdAt

AmountsAreNumbers(sponsors) ==
    \A i \in 1..Len(sponsors) :
       /\ ~sponsors[i].totalLifetimeAmount.nan
       /\ ~sponsors[i].highestTierAmount.nan

\* C11: the list processSponsorData returns, when every amount in it is a
\* number, is ordered by category rank special, current, past, backers,
\* then by totalLifetimeAmount descending, then highestTierAmount
\* descending, then createdAt descending.
C11_ReturnedListIsOrdered ==
    AmountsAreNumbers(result) =>
       \A i, j \in 1..Len(result) : i < j => MayPrecede(result[i], result[j])

Written == output # <<>>

Doc == output[1]

\* The records of the four arrays of the document, one after another.
Buckets ==
    Doc.specialSponsors \o Doc.sponsors \o Doc.pastSponsors \o Doc.backers

RECURSIVE SumLifetimeCents(_)
SumLifetimeCents(S) ==
    IF S = {} THEN 0
    ELSE LET i == CHOOSE x \in S : TRUE
         IN result[i].totalLifetimeAmount.v + SumLifetimeCents(S \ {i})

\* C12: in the document written, every sponsor of the list passed in occurs
\* in exactly one of the arrays specialSponsors, sponsors, pastSponsors and
\* backers; the four counts of the summary add up to total_sponsors, the
\* length of the list; and, the amounts being numbers,
\* total_lifetime_amount is the sum of totalLifetimeAmount over them.
C12_BucketsPartitionTheList ==
    Written =>
       /\ Doc.summary.total_sponsors = Len(result)
       /\ Doc.summary.special_sponsors + Doc.summary.current_sponsors
             + Doc.summary.past_sponsors + Doc.summary.backers
             = Doc.summary.total_sponsors
       /\ Doc.summary.special_sponsors = Len(Doc.specialSponsors)
       /\ Doc.summary.current_sponsors = Len(Doc.sponsors)
       /\ Doc.summary.past_sponsors = Len(Doc.pastSponsors)
       /\ Doc.summary.backers = Len(Doc.backers)
       /\ \A i \in 1..Len(result) :
             Cardinality({ k \in 1..Len(Buckets) :
                             Buckets[k].githubId = result[i].sponsor.login }) = 1
       /\ Len(Buckets) = Len(result)
       /\ AmountsAreNumbers(result) =>
             Doc.summary.total_lifetime_amount
                = [null |-> FALSE, v |-> SumLifetimeCents(1..Len(result))]

\* A backers sponsor and a past sponsor, $13.00 in all.
C12_Witness ==
    /\ Written
    /\ Len(Doc.backers) = 1
    /\ Len(Doc.pastSponsors) = 1
    /\ Doc.summary.total_sponsors = 2
    /\ Doc.summary.total_lifetime_amount = [null |-> FALSE, v |-> 1300]

RECURSIVE SumMonthlyCents(_)
SumMonthlyCents(S) ==
    IF S = {} THEN 0
    ELSE LET i == CHOOSE x \in S : TRUE
         IN result[i].currentMonthlyAmount.v + SumMonthlyCents(S \ {i})

ActiveIndexes == { i \in 1..Len(result) : result[i].isCurrentlyActive }

\* C13: summary.total_current_monthly is the sum of currentMonthlyAmount
\* over the sponsors of the list with isCurrentlyActive, of whatever
\* category; a sponsor that is not active adds nothing.
C13_MonthlyTotalOverActiveSponsors ==
    Written =>
       /\ \A i \in 1..Len(result) : ~result[i].currentMonthlyAmount.nan
       /\ Doc.summary.total_current_monthly
             = [null |-> FALSE, v |-> SumMonthlyCents(ActiveIndexes)]

\* An active $3 monthly sponsor of category backers and a lapsed $5 monthly
\* sponsor: $3.00 a month.
C13_Witness ==
    /\ Written
    /\ \E i, j \in 1..Len(result) :
          /\ result[i].category = "backers"
          /\ result[i].isCurrentlyActive
          /\ result[i].currentMonthlyAmount = Num(300)
          /\ ~result[j].isCurrentlyActive
          /\ result[j].currentMonthlyAmount = Num(500)
    /\ Doc.summary.total_current_monthly = [null |-> FALSE, v |-> 300]

\* A sponsor with a valid transaction one of whose amount strings
\* parseAmount turns into NaN.
HasMalformedAmount(r) ==
    \E k \in ValidIndexes(r) :
       \/ parseAmount(r.transactions[k].processed_amount).nan
       \/ parseAmount(r.transactions[k].tier_monthly_amount).nan

\* C14: a sponsor with a malformed amount string in a valid transaction is
\* not in the output, and the totals of the summary written are numbers.
C14_MalformedAmountExcluded ==
    /\ \A i \in 1..Len(rawSponsors) :
          HasMalformedAmount(rawSponsors[i])
             => rawSponsors[i].sponsor_handle \notin OutputLogins
    /\ Written =>
          /\ ~Doc.summary.total_lifetime_amount.null
          /\ ~Doc.summary.total_current_monthly.null

----------------------------------------------------------------------------
(* Properties of the profile lookup *)

\* The record the latest iteration pushed.
Pushed == validSponsors[Len(validSponsors)]

LookupOutcomes ==
    IF GITHUB_TOKEN THEN {"ok", "404", "403", "500", "network error"}
    ELSE {"not requested"}

\* The sponsors among the first k of the export that are public and have a
\* valid transaction.
Eligible(k) ==
    { i \in 1..k : rawSponsors[i].is_public
                   /\ ValidIndexes(rawSponsors[i]) # {} }

\* C15: whatever the profile lookup of a sponsor does, the loop goes on and
\* the sponsor is pushed, with the category, amounts and tier name its
\* transactions give; and when the lookup does not deliver a profile (no
\* token, HTTP 404, 403, another status, a network error) the record has
\* name = profile name of the export or else the handle, avatarUrl and
\* linkUrl built from the handle, and websiteUrl null.
C15_LookupFailureFallsBack ==
    /\ Len(validSponsors) = Cardinality(Eligible(idx))
    /\ HasLocals =>
          /\ L.response \in LookupOutcomes
          /\ Pushed.sponsor.login = L.sponsor.sponsor_handle
          /\ Pushed.category = CategoryAfter(L.sponsor, L.dateNow)
          /\ Pushed.tierName = L.tierName
          /\ Pushed.isCurrentlyActive = L.isCurrentlyActive
          /\ Pushed.currentMonthlyAmount = L.currentMonthlyAmount
          /\ Pushed.highestTierAmount = Num(HighestTierCents(L.sponsor))
          /\ Pushed.totalLifetimeAmount
                = Num(SumProcessedCents(L.sponsor, ValidIndexes(L.sponsor)))
          /\ L.response # "ok" =>
                /\ Pushed.sponsor.name
                      = IF L.sponsor.sponsor_profile_name \notin {null, ""}
                        THEN L.sponsor.sponsor_profile_name
                        ELSE L.sponsor.sponsor_handle
                /\ Pushed.sponsor.avatarUrl
                      = <<"https://avatars.githubusercontent.com/",
                          L.sponsor.sponsor_handle>>
                /\ Pushed.sponsor.linkUrl
                      = <<"https://github.com/", L.sponsor.sponsor_handle>>
                /\ Pushed.sponsor.websiteUrl = NoUrl

\* With a token: two sponsors returned without a website, the lookup of the
\* second answered by a server error.
C15_Witness ==
    /\ GITHUB_TOKEN
    /\ pc = "returned"
    /\ Len(result) = 2
    /\ L.response = "500"
    /\ \A i \in 1..2 : result[i].sponsor.websiteUrl = NoUrl

----------------------------------------------------------------------------
(* Properties of main of scripts/process-sponsors.ts *)

Uploads ==
    { k \in 1..Len(events) : events[k].op \in {"upload ok", "upload failed"} }

\* C16: when the export file is missing or cannot be parsed, with or
\* without --yes, the run never gets to the loop: it writes nothing,
\* uploads nothing, can always take its next step until it has exited, and
\* exits with code 1.
C16_InputErrorIsFatal ==
    exportFile \in {"missing", "unparseable"} =>
       /\ pc \in {"main", "read", "exited"}
       /\ output = <<>>
       /\ OUTPUT_SPONSORS_JSON \notin files
       /\ events = <<>>
       /\ Uploads = {}
       /\ exitCode \in {"running", "1"}
       /\ pc = "exited" <=> exitCode = "1"
       /\ exitCode = "running" => ENABLED (CheckExportFile \/ ReadExport)
       /\ (exportFile = "missing" => pc # "read")

\* An export file that is not JSON, with --yes: exit code 1.
C16_Witness ==
    /\ exportFile = "unparseable"
    /\ autoYes
    /\ pc = "exited"
    /\ exitCode = "1"
    /\ output = <<>>

----------------------------------------------------------------------------
(* Properties of the classification under changes of the export *)

IndexPermutations(n) ==
    { f \in [1..n -> 1..n] : \A i, j \in 1..n : f[i] = f[j] => i = j }

\* r with its transactions listed in the order f.
Reordered(r, f) ==
    [r EXCEPT !.transactions = [i \in 1..Len(@) |-> @[f[i]]]]

Classification(l) ==
    [ category |-> l.category,
      isCurrentlyActive |-> l.isCurrentlyActive,
      currentMonthlyAmount |-> l.currentMonthlyAmount,
      tierName |-> l.tierName ]

\* C17: listing the transactions of the sponsor in any other order gives,
\* with the same clock reading, the same category, isCurrentlyActive,
\* currentMonthlyAmount and tierName.
C17_TransactionOrderIrrelevant ==
    HasLocals =>
       \A f \in IndexPermutations(Len(L.sponsor.transactions)) :
          \A t \in FallbackTiers(Reordered(L.sponsor, f)) :
             Classification(Iteration(Reordered(L.sponsor, f), L.dateNow, t))
                = Classification(L)

----------------------------------------------------------------------------
(* Properties of the records of the document *)

HasField(rec, field) == field \in DOMAIN rec

----------------------------------------------------------------------------
(* Properties of large one-time contributions *)

RECURSIVE SumTierCents(_, _)
SumTierCents(r, I) ==
    IF I = {} THEN 0
    ELSE LET k == CHOOSE x \in I : TRUE
         IN TierCents(r, k) + SumTierCents(r, I \ {k})

\* The sponsor of the latest iteration paid $400 or more in valid one-time
\* transactions.
PaidLargeOneTimeTotal ==
    /\ HasLocals
    /\ SumTierCents(L.sponsor, OneTimeIndexes(L.sponsor)) >= 400 * 100

----------------------------------------------------------------------------
(* Properties of main of scripts/upload-sponsorkit-to-r2.ts *)

RunEvents == {"run ok", "run failed"}

\* C20: the steps run in the order process sponsors, generate banner,
\* generate PNG; a failed step is the last thing the run does, and the run
\* exits with code 1; an upload is attempted only with --yes and only after
\* the three steps succeeded.
C20_StepsInOrderUploadLast ==
    /\ \A k \in 1..Len(events) :
          /\ events[k].op \in RunEvents
                => k <= 3 /\ events[k].what = KitCommands[k]
          /\ events[k].op = "run failed"
                => k = Len(events) /\ pc = "exited" /\ exitCode = "1"
          /\ events[k].op \in UploadEvents =>
                /\ autoYes
                /\ k > 3
                /\ \A i \in 1..3 : events[i] = Event("run ok", KitCommands[i])
                /\ events[k].what = KitFiles[k - 3]
          /\ k <= 3 => events[k].op \in RunEvents
    /\ exitCode = "1" =>
          Len(events) >= 1 /\ events[Len(events)].op = "run failed"
    /\ exitCode = "0" =>
          \A i \in 1..3 : events[i] = Event("run ok", KitCommands[i])

\* With --yes: three steps, then three uploads.
C20_Witness ==
    /\ autoYes
    /\ pc = "done"
    /\ Len(events) = 7
    /\ \A i \in 1..3 : events[i].op = "run ok"
    /\ \A i \in 4..6 : events[i].op \in {"upload ok", "upload failed"}

----------------------------------------------------------------------------
(* Properties of the split into recurring and one-time transactions *)

\* p occurs in s as a contiguous run of characters.
Contains(s, p) ==
    \E i \in 0..Len(s), j \in 0..Len(s) : i <= j /\ SubSeq(s, i + 1, j) = p

HasRecurringMarker(name) ==
    \/ Contains(name, <<"a", " ", "m", "o", "n", "t", "h">>)
    \/ Contains(name, <<"m", "o", "n", "t", "h", "l", "y">>)
    \/ Contains(name, <<"/", "m", "o", "n", "t", "h">>)

Range(s) == { s[i] : i \in 1..Len(s) }

Occurrences(s, t) == Cardinality({ i \in 1..Len(s) : s[i] = t })

\* The array s holds exactly the transactions of r with an index in I.
HoldsExactly(s, r, I) ==
    /\ Len(s) = Cardinality(I)
    /\ \A k \in I :
          Occurrences(s, r.transactions[k])
             = Cardinality({ j \in I : r.transactions[j] = r.transactions[k] })

MarkedIndexes(r) ==
    { k \in ValidIndexes(r) : HasRecurringMarker(r.transactions[k].tier_name) }

\* C22: a valid transaction is in recurringTransactions iff its tier_name
\* contains, in this letter case, "a month", "monthly" or "/month"; every
\* valid transaction is in exactly one of recurringTransactions and
\* oneTimeTransactions, and hasRecurringTiers is true iff
\* recurringTransactions is not empty.
C22_RecurringIffMarker ==
    HasLocals =>
        LET r == L.sponsor
        IN /\ HoldsExactly(L.recurringTransactions, r, MarkedIndexes(r))
           /\ HoldsExactly(L.oneTimeTransactions, r,
                           ValidIndexes(r) \ MarkedIndexes(r))
           /\ Len(L.recurringTransactions) + Len(L.oneTimeTransactions)
                 = Cardinality(ValidIndexes(r))
           /\ L.hasRecurringTiers <=> Len(L.recurringTransactions) > 0

C22_Witness ==
    /\ HasLocals
    /\ \E t \in Range(L.recurringTransactions) :
          Contains(t.tier_name, <<"m", "o", "n", "t", "h", "l", "y">>)
    /\ \E t \in Range(L.oneTimeTransactions) :
          Contains(t.tier_name, <<"M", "o", "n", "t", "h">>)
    /\ Len(L.sponsor.transactions) = 2

----------------------------------------------------------------------------
(* Properties of currentMonthlyAmount *)

\* C23: currentMonthlyAmount is the tier_monthly_amount of the valid
\* recurring transaction with the latest transaction_date, and 0 when there
\* is no recurring transaction; it is not the largest recurring tier amount:
\* when the latest recurring tier is below $100 the sponsor is special only
\* through the window of a one-time payment.
C23_MonthlyAmountOfLatestRecurring ==
    HasLocals =>
        LET r == L.sponsor
            Rec == RecurringIndexes(r)
        IN /\ IF Rec = {}
              THEN L.currentMonthlyAmount = Num(0)
              ELSE \E k \in MostRecent(r, Rec) :
                      L.currentMonthlyAmount = Num(TierCents(r, k))
           /\ /\ Rec # {}
              /\ \A k \in MostRecent(r, Rec) : TierCents(r, k) < 100 * 100
              /\ ~L.isWithinSpecialWindow
              => L.category # "special"

\* A sponsor that paid $100 a month and later $5 a month.
C23_Witness ==
    /\ HasLocals
    /\ LET r == L.sponsor
      IN /\ Len(r.transactions) = 2
         /\ RecurringIndexes(r) = {1, 2}
         /\ TierCents(r, 1) = 100 * 100
         /\ TierCents(r, 2) = 5 * 100
         /\ r.transactions[1].transaction_date
               < r.transactions[2].transaction_date
         /\ L.isCurrentlyActive
    /\ L.currentMonthlyAmount = Num(5 * 100)
    /\ L.recurringTierAmount = Num(100 * 100)
    /\ L.category = "current"

----------------------------------------------------------------------------
(* Properties of the category as time passes *)

\* Ticks after the clock reading of the iteration: next to the moments the
\* 30, 45, 60 and 400 day limits of the payments of the export are passed.
Advances == <<0, 1, 2, 59, 60, 61, 710, 711, 712>>

\* The category of sponsor r, whose transaction arrays are arr and whose
\* latest transactions are latest, at each of the later clock readings.
RECURSIVE CategoriesFrom(_, _, _, _, _)
CategoriesFrom(r, arr, latest, n, ds) ==
    IF ds = <<>> THEN <<>>
    ELSE <<CategoryOf(n + Head(ds), arr, latest,
                      Status(r, n + Head(ds), arr, latest))>>
         \o CategoriesFrom(r, arr, latest, n, Tail(ds))

CategoriesOver(r, arr, n, ds) ==
    CategoriesFrom(r, arr, LatestTransactions(arr), n, ds)

CategoryOverTime(r, n, ds) == CategoriesOver(r, TransactionArrays(r), n, ds)

\* c never moves up in rank from one position to a later one.
OnlyFalls(c) ==
    \A i \in 1..Len(c), j \in 1..Len(c) :
       i <= j =>
          /\ Rank(c[i]) <= Rank(c[j])
          /\ c[i] # "special" => c[j] # "special"
          /\ c[i] = "past" => c[j] # "current"
          /\ c[i] = "backers" => c[j] = "backers"
          /\ c[i] \in {"current", "past"} => c[j] # "backers"

\* C24: with the transactions of a sponsor fixed and the clock advancing,
\* the category never moves up in rank: a sponsor that is not special is not
\* special later, a past sponsor is not current later, and a sponsor is
\* backers at one moment iff it is at every later one, unless it was special.
C24_CategoryOnlyFallsWithTime ==
    HasLocals =>
        LET c == CategoryOverTime(L.sponsor, L.dateNow, Advances)
        IN /\ c[1] = L.category
           /\ OnlyFalls(c)

\* A sponsor that is special, then current, then past.
C24_Witness ==
    /\ HasLocals
    /\ L.category = "special"
    /\ LET c == CategoryOverTime(L.sponsor, L.dateNow, Advances)
      IN \E i \in 1..Len(c), j \in 1..Len(c) :
            i < j /\ c[i] = "current" /\ c[j] = "past"

----------------------------------------------------------------------------
(* Properties of summary.top_sponsor *)

LargestLifetimeCents ==
    CHOOSE m \in { result[i].totalLifetimeAmount.v : i \in 1..Len(result) } :
       \A i \in 1..Len(result) : result[i].totalLifetimeAmount.v <= m

\* C25: summary.top_sponsor is null exactly when the document holds no
\* sponsor; otherwise, for a list of sponsors of the categories special,
\* current and past whose amounts are numbers, top_sponsor.amount is the
\* largest totalLifetimeAmount of the sponsors of the document.
C25_TopSponsorHasLargestTotal ==
    Written =>
       /\ Doc.summary.top_sponsor = <<>> <=> Len(Buckets) = 0
       /\ /\ Len(result) > 0
          /\ AmountsAreNumbers(result)
          /\ \A i \in 1..Len(result) : result[i].category # "backers"
          => Doc.summary.top_sponsor[1].amount
                = [null |-> FALSE, v |-> LargestLifetimeCents]

----------------------------------------------------------------------------
(* Properties of the warnings of a call *)

\* C30: without a GITHUB_TOKEN, the "No GitHub token found" warning is
\* printed at most once during a call of processSponsorData, however many
\* records are pushed.
C30_TokenWarningAtMostOnce ==
    ~GITHUB_TOKEN => tokenWarnings <= 1

----------------------------------------------------------------------------
(* Properties of the closing message of an upload run *)

Logged(message) == \E k \in 1..Len(events) : events[k] = Event("log", message)

\* C29: "All files uploaded to R2 bucket" is logged only if every upload
\* attempted succeeded, and a failed or skipped upload does not keep the
\* uploads of the remaining files from being attempted: a run with --yes
\* that ends with code 0 has attempted all three.
C29_SuccessMessageOnlyAfterSuccess ==
    /\ Logged("All files uploaded to R2 bucket") =>
          \A k \in 1..Len(events) :
             events[k].op \in UploadEvents => events[k].op = "upload ok"
    /\ autoYes /\ exitCode = "0" => UploadCalls = 3

----------------------------------------------------------------------------
(* Properties of compareSponsorData *)

LoginsOf(list) == { login(list[i]) : i \in 1..Len(list) }

\* The last record of the list with the login lg.
LastRecord(list, lg) ==
    list[CHOOSE i \in 1..Len(list) :
            /\ login(list[i]) = lg
            /\ \A j \in 1..Len(list) : login(list[j]) = lg => j <= i]

Compared == pc = "done" /\ events # <<>> /\ events[1].op = "displayChanges"

Groups == events[1].what

AddedLogins == LoginsOf(Groups.added)

RemovedLogins == LoginsOf(Groups.removed)

ChangedLogins ==
    { login(Groups.changed[i].new) : i \in 1..Len(Groups.changed) }

\* C26: compareSponsorData(old, new) puts a login in added iff it occurs in
\* new only, in removed iff it occurs in old only, in changed iff it occurs
\* in both and the records differ as JSON text, and in no group iff it
\* occurs in both with the same text; no login is in two groups or twice in
\* one; the record compared and reported for a login is the last one of its
\* list.
C26_LoginsClassifiedOnce ==
    Compared =>
       /\ AddedLogins \cup RemovedLogins \cup ChangedLogins
             \subseteq LoginsOf(oldSponsors) \cup LoginsOf(newSponsors)
       /\ \A lg \in LoginsOf(oldSponsors) \cup LoginsOf(newSponsors) :
             /\ lg \in AddedLogins
                   <=> lg \in LoginsOf(newSponsors) \ LoginsOf(oldSponsors)
             /\ lg \in RemovedLogins
                   <=> lg \in LoginsOf(oldSponsors) \ LoginsOf(newSponsors)
             /\ lg \in ChangedLogins
                   <=> /\ lg \in LoginsOf(oldSponsors) \cap LoginsOf(newSponsors)
                       /\ LastRecord(oldSponsors, lg)
                             # LastRecord(newSponsors, lg)
       /\ AddedLogins \cap RemovedLogins = {}
       /\ AddedLogins \cap ChangedLogins = {}
       /\ RemovedLogins \cap ChangedLogins = {}
       /\ Len(Groups.added) = Cardinality(AddedLogins)
       /\ Len(Groups.removed) = Cardinality(RemovedLogins)
       /\ Len(Groups.changed) = Cardinality(ChangedLogins)
       /\ \A i \in 1..Len(Groups.added) :
             Groups.added[i]
                = LastRecord(newSponsors, login(Groups.added[i]))
       /\ \A i \in 1..Len(Groups.removed) :
             Groups.removed[i]
                = LastRecord(oldSponsors, login(Groups.removed[i]))
       /\ \A i \in 1..Len(Groups.changed) :
             /\ Groups.changed[i].new
                   = LastRecord(newSponsors, login(Groups.changed[i].new))
             /\ Groups.changed[i].old
                   = LastRecord(oldSponsors, login(Groups.changed[i].new))

\* The old list holds a login twice, and its last record is the one of the
\* new list; the new list has another sponsor.
C26_Witness ==
    /\ Compared
    /\ oldSponsors = <<RecordA5, RecordA10>>
    /\ newSponsors = <<RecordA10, RecordB5>>
    /\ Groups = [added |-> <<RecordB5>>, removed |-> <<>>, changed |-> <<>>]

----------------------------------------------------------------------------
(* Properties of a run of sponsorkit-enhanced.ts *)

C27_OldListIsPreviousContent ==
    \A k \in 1..Len(events) :
       events[k].op = "sponsorkit" /\ events[k].what.before # NotJson
          => oldSponsors = IF events[k].what.before = NoFile THEN <<>>
                           ELSE events[k].what.before[1][1]

----------------------------------------------------------------------------
(* Properties of the fetch-sponsors script *)

RECURSIVE Concat(_)
Concat(ps) == IF ps = <<>> THEN <<>> ELSE Head(ps) \o Concat(Tail(ps))

\* The entries of the trace for the requests of a query, in order.
RequestsOf(name) ==
    SelectSeq(events, LAMBDA e :
        e.op \in {"request", "request failed"} /\ e.what.query = name)

Failed(name) ==
    \E k \in 1..Len(events) :
       events[k].op = "request failed" /\ events[k].what.query = name

Returned(name) ==
    \E k \in 1..Len(events) :
       events[k].op = "return" /\ events[k].what.query = name

\* C28: the k-th request of a call of fetchAllSponsors carries the
\* endCursor of page k - 1; a call none of whose requests failed returns
\* the nodes of all pages up to the first without a next page; and after a
\* request failed, when the list returned lacks sponsors the endpoint
\* serves, github-sponsors-data.json is not written and the run does not
\* end with exit code 0.
C28_PartialListNotSaved ==
    /\ \A q \in 1..2 :
          /\ \A k \in 1..Len(RequestsOf(QueryNames[q])) :
                RequestsOf(QueryNames[q])[k].what.after = k - 1
          /\ Len(RequestsOf(QueryNames[q])) <= MaxPages
    /\ Returned(QueryNames[1]) /\ ~Failed(QueryNames[1])
          => activeSponsors = Concat(pages.active)
    /\ Returned(QueryNames[2]) /\ ~Failed(QueryNames[2])
          => pastSponsors = Concat(pages.past)
    /\ \/ Returned(QueryNames[1]) /\ activeSponsors # Concat(pages.active)
       \/ Returned(QueryNames[2]) /\ pastSponsors # Concat(pages.past)
       => SPONSORS_DATA_FILE \notin files /\ exitCode # "0"

====
